---- MODULE Spec2Model ----
(***************************************************************************)
(* A model of the chart demo repository: the mock-data generators of       *)
(* src/src/components/mockData.js, the canvas drawing plugins and the      *)
(* viewer component of src/src/components/UPlotDemo.jsx.                    *)
(*                                                                         *)
(* Numbers.  JavaScript numbers that carry fractions are modelled in fixed *)
(* point: an integer n stands for n/Cent hundredths, so Cent units are     *)
(* 0.01 and toFixed(2) rounds to a multiple of Cent.  Counts, indices and  *)
(* timestamps are plain integers.  Math.random() is a nondeterministic     *)
(* choice; every loop iteration of a generator is one action.              *)
(***************************************************************************)
EXTENDS Integers, Sequences, FiniteSets, TLC

VARIABLES pc,    \* position of the running function ("done" once it returned)
          cfg,   \* the configuration record the function was called with
          loc,   \* the function's local variables
          out,   \* the value under construction / returned
          ctx    \* the drawing commands issued on the canvas context

\* the UPlotDemo component
VARIABLES mounted,    \* the component is mounted
          dataset,    \* useState: the selected archetype
          params,     \* useState: the parameter record
          regenKey,   \* useState: the regeneration counter
          isLoading,  \* useState: the loading flag
          chartRef,   \* useRef: the chart container element
          uplotRef,   \* useRef: the uPlot instance
          timer,      \* the pending creation timer of the chart effect
          rendered,   \* what the last render computed and committed
          alive       \* number of uPlot instances created and not destroyed

genVars == <<pc, cfg, loc, out, ctx>>
viewerVars == <<mounted, dataset, params, regenKey, isLoading, chartRef,
                uplotRef, timer, rendered, alive>>
vars == <<genVars, viewerVars>>

Null == [null |-> TRUE]
IsNull(v) == "null" \in DOMAIN v

\* the value undefined, and the TypeError a read through it raises
Undefined == [undefined |-> TRUE]
IsUndefined(v) == "undefined" \in DOMAIN v
TypeError == [thrown |-> [error |-> "TypeError"]]

\* the component's variables while a generator or a plugin runs on its own
ViewerIdle ==
  /\ mounted = FALSE
  /\ dataset = "line"
  /\ params = Null
  /\ regenKey = 0
  /\ isLoading = FALSE
  /\ chartRef = Null
  /\ uplotRef = Null
  /\ timer = Null
  /\ rendered = Null
  /\ alive = 0

(***************************************************************************)
(* Bounds of the model.                                                    *)
(***************************************************************************)
Cent      == 4    \* model units per 0.01
MaxVal    == 6    \* largest min/max of a value range, in model units
MaxSeries == 2
MaxPoints == 2
MaxGroups == 2
MaxSamples == 3
MaxX == 3
MaxY == 2
MaxDepth == 3
MaxBreadth == 2
TapeLen == 3
MaxStages == 3
MaxCats == 3
MaxRegen  == 4    \* largest regeneration counter the viewer reaches
MaxNodes  == 3    \* largest node count of a graph or a sankey
MaxExtra  == 2    \* largest extraLinks of a graph
MaxLinks  == 2    \* largest links of a sankey
MaxClusters == 2  \* largest clusters of a scatter
MaxSlices == 3    \* largest number of slices of a pie

Abs(x) == IF x < 0 THEN -x ELSE x
Max2(a, b) == IF a >= b THEN a ELSE b
Min2(a, b) == IF a <= b THEN a ELSE b

(***************************************************************************)
(* Number(x.toFixed(2)): the multiple of 0.01 nearest to x, the larger in  *)
(* magnitude on a tie (ECMAScript Number.prototype.toFixed).               *)
(***************************************************************************)
toFixed2(x) == IF x >= 0 THEN ((2 * x + Cent) \div (2 * Cent)) * Cent
               ELSE -(((2 * (-x) + Cent) \div (2 * Cent)) * Cent)

(***************************************************************************)
(* rand(min, max) = Math.random() * (max - min) + min with Math.random()   *)
(* in [0, 1): the set of values it can return.                             *)
(***************************************************************************)
rand(min, max) == IF max > min THEN min .. (max - 1)
                  ELSE IF max = min THEN {min}
                  ELSE (max + 1) .. min

(***************************************************************************)
(* generateLine                                                            *)
(***************************************************************************)
LineConfigs ==
  { [series |-> s, points |-> p, start |-> st, interval |-> iv,
     min |-> mn, max |-> mx, volatility |-> v] :
      s \in 1..MaxSeries, p \in 1..MaxPoints, st \in {0, 7}, iv \in {1, 3},
      mn \in {0, 1, Cent}, mx \in {MaxVal - 1, MaxVal, 2 * Cent},
      v \in {2, MaxVal} }

LineClampNoUpper(base, min, max) == IF base < min THEN min ELSE base

\* if (base < min) base = min; if (base > max) base = max;
LineClamp(base, min, max) ==
  LET b1 == IF base < min THEN min ELSE base
  IN  IF b1 > max THEN max ELSE b1

LineInit ==
  /\ pc = "line.series"
  /\ cfg \in LineConfigs
  /\ loc = [s |-> 0, i |-> 0, base |-> 0, data |-> <<>>]
  /\ out = <<>>
  /\ ctx = <<>>
  /\ ViewerIdle

\* for (let s = 0; s < series; s++) { let base = rand(min, max); const data = [];
LineSeriesBegin ==
  /\ pc = "line.series"
  /\ loc.s < cfg.series
  /\ \E b \in rand(cfg.min, cfg.max) :
       loc' = [loc EXCEPT !.base = b, !.data = <<>>, !.i = 0]
  /\ pc' = "line.points"
  /\ UNCHANGED <<viewerVars, cfg, out, ctx>>

\* one iteration of the inner loop
LinePoint ==
  /\ pc = "line.points"
  /\ loc.i < cfg.points
  /\ \E d \in rand(-cfg.volatility, cfg.volatility) :
       LET base == LineClamp(loc.base + d, cfg.min, cfg.max)
       IN  loc' = [loc EXCEPT
                     !.base = base,
                     !.data = Append(@, <<cfg.start + loc.i * cfg.interval,
                                          toFixed2(base)>>),
                     !.i = @ + 1]
  /\ UNCHANGED <<viewerVars, pc, cfg, out, ctx>>

\* out.push({ name: `L${s + 1}`, data });
LineSeriesEnd ==
  /\ pc = "line.points"
  /\ loc.i >= cfg.points
  /\ out' = Append(out, [name |-> <<"L", loc.s + 1>>, data |-> loc.data])
  /\ loc' = [loc EXCEPT !.s = @ + 1]
  /\ pc' = "line.series"
  /\ UNCHANGED <<viewerVars, cfg, ctx>>

LineReturn ==
  /\ pc = "line.series"
  /\ loc.s >= cfg.series
  /\ pc' = "done"
  /\ UNCHANGED <<viewerVars, cfg, loc, out, ctx>>

LineNext == LineSeriesBegin \/ LinePoint \/ LineSeriesEnd \/ LineReturn

SpecLine == LineInit /\ [][LineNext]_vars

\* every data array the generator has built so far
LineArrays == {out[k].data : k \in 1..Len(out)} \cup {loc.data}

One == 100 * Cent    \* the number 1 in model units

\* volatilities are even numbers of units, so that volatility * 1.5 is a
\* whole number of units
CandleConfigs ==
  { [points |-> p, start |-> st, interval |-> iv, base |-> b, volatility |-> v] :
      p \in 1..MaxPoints, st \in {0}, iv \in {1, 3},
      b \in {-3, One - 1, One + 2, One + Cent}, v \in {0, 2, 4} }

CandleHighOpenOnly(open, close, r) == open + r

\* const high = Math.max(open, close) + rand(0, volatility * 1.5);
CandleHigh(open, close, r) == Max2(open, close) + r

\* const low = Math.min(open, close) - rand(0, volatility * 1.5);
CandleLow(open, close, r) == Min2(open, close) - r

CandlePriceNoFloor(price, d) == price + d

\* price = Math.max(1, price + rand(-volatility, volatility));
CandlePrice(price, d) == Max2(One, price + d)

CandleInit ==
  /\ pc = "candlestick.loop"
  /\ cfg \in CandleConfigs
  /\ loc = [i |-> 0, price |-> cfg.base]
  /\ out = <<>>
  /\ ctx = <<>>
  /\ ViewerIdle

\* one iteration of the loop
CandleRow ==
  /\ pc = "candlestick.loop"
  /\ loc.i < cfg.points
  /\ \E d \in rand(-cfg.volatility, cfg.volatility),
        rh \in rand(0, (cfg.volatility * 3) \div 2),
        rl \in rand(0, (cfg.volatility * 3) \div 2) :
       LET time  == cfg.start + loc.i * cfg.interval
           open  == loc.price
           price == CandlePrice(loc.price, d)
           close == price
           high  == CandleHigh(open, close, rh)
           low   == CandleLow(open, close, rl)
       IN  /\ out' = Append(out, <<time, toFixed2(open), toFixed2(high),
                                   toFixed2(low), toFixed2(close)>>)
           /\ loc' = [i |-> loc.i + 1, price |-> price]
  /\ UNCHANGED <<viewerVars, pc, cfg, ctx>>

CandleReturn ==
  /\ pc = "candlestick.loop"
  /\ loc.i >= cfg.points
  /\ pc' = "done"
  /\ UNCHANGED <<viewerVars, cfg, loc, out, ctx>>

CandleNext == CandleRow \/ CandleReturn

SpecCandle == CandleInit /\ [][CandleNext]_vars

(***************************************************************************)
(* C2: in every row [time, open, high, low, close] of generateCandlestick, *)
(* high >= max(open, close) and low <= min(open, close).                   *)
(***************************************************************************)
C2_HighLowEnclose ==
  \A k \in 1..Len(out) :
    /\ out[k][3] >= Max2(out[k][2], out[k][5])
    /\ out[k][4] <= Min2(out[k][2], out[k][5])

C2_Witness ==
  /\ pc = "done"
  /\ Len(out) >= 2
  /\ out[1][5] > out[1][2]
  /\ out[2][5] < out[2][2]
  /\ out[2][3] > out[2][2]
  /\ out[2][4] = out[2][5]

(***************************************************************************)
(* C26 as stated: the rows form a chain whose first open equals the        *)
(* configured base, each later open equals the previous close, every close *)
(* is >= 1 and the time of row i is start + i * interval.  The code rounds *)
(* the open to two decimals, so the first open is not the base when the    *)
(* base has more decimals.                                                 *)
(***************************************************************************)
C26_Original ==
  pc = "done" =>
    /\ out[1][2] = cfg.base
    /\ \A k \in 2..Len(out) : out[k][2] = out[k - 1][5]
    /\ \A k \in 1..Len(out) : out[k][5] >= One
    /\ \A k \in 1..Len(out) : out[k][1] = cfg.start + (k - 1) * cfg.interval

(***************************************************************************)
(* C26 as the code has it: the first row's open equals the configured base *)
(* rounded to two decimals, each later row's open equals the previous      *)
(* row's close, every close is >= 1, and the time of row i (from 0) is     *)
(* start + i * interval, strictly increasing for interval > 0.             *)
(***************************************************************************)
C26_CandleChain ==
  pc = "done" =>
    /\ out[1][2] = toFixed2(cfg.base)
    /\ \A k \in 2..Len(out) : out[k][2] = out[k - 1][5]
    /\ \A k \in 1..Len(out) : out[k][5] >= One
    /\ \A k \in 1..Len(out) : out[k][1] = cfg.start + (k - 1) * cfg.interval
    /\ (cfg.interval > 0 =>
          \A k \in 2..Len(out) : out[k][1] > out[k - 1][1])

\* two rows from a base below 1 with more than two decimals: the first
\* open is the rounded base, the first close was raised to at least 1 and
\* moved, and the second row opens there
C26_Witness ==
  /\ pc = "done"
  /\ Len(out) = 2
  /\ cfg.base = One - 1
  /\ cfg.interval = 3
  /\ out[1][2] = One /\ out[1][2] # cfg.base
  /\ out[1][5] > out[1][2]
  /\ out[2][2] = out[1][5]
  /\ out[2][1] = 3

(***************************************************************************)
(* generateBoxplot                                                         *)
(***************************************************************************)
BoxplotConfigs ==
  { [groups |-> g, samples |-> n, min |-> mn, max |-> mx] :
      g \in 1..MaxGroups, n \in 0..MaxSamples,
      mn \in {0, 2}, mx \in {2, 2 * Cent - 1} }

\* the draws the model enumerates, among those of rand(min, max): the
\* lowest, the middle and the highest
SampleDraws(min, max) ==
  {v \in rand(min, max) : v \in {min, (min + max) \div 2, max - 1}}

\* arr with x inserted before the first element greater than x
RECURSIVE Insert(_, _)
Insert(arr, x) ==
  IF arr = <<>> THEN <<x>>
  ELSE IF x < Head(arr) THEN <<x>> \o arr
  ELSE <<Head(arr)>> \o Insert(Tail(arr), x)

RECURSIVE SortAsc(_)
SortUnsorted(arr) == arr

\* arr.sort((a, b) => a - b)
SortAsc(arr) ==
  IF arr = <<>> THEN <<>> ELSE Insert(SortAsc(Tail(arr)), Head(arr))

QuantileNearest(arr, samples, p) ==
  arr[Min2((samples * p + 50) \div 100, Len(arr) - 1) + 1]

\* arr[Math.floor(samples * p / 100)], arr indexed from 0
Quantile(arr, samples, p) == arr[((samples * p) \div 100) + 1]

BoxplotInit ==
  /\ pc = "boxplot.loop"
  /\ cfg \in BoxplotConfigs
  /\ loc = [g |-> 0, arr |-> <<>>]
  /\ out = <<>>
  /\ ctx = <<>>
  /\ ViewerIdle

\* one iteration of the loop over the groups
BoxplotGroup ==
  /\ pc = "boxplot.loop"
  /\ loc.g < cfg.groups
  /\ cfg.samples >= 1
  /\ \E drawn \in [1..cfg.samples -> SampleDraws(cfg.min, cfg.max)] :
       LET arr == SortAsc(drawn)
           q1  == Quantile(arr, cfg.samples, 25)
           q2  == Quantile(arr, cfg.samples, 50)
           q3  == Quantile(arr, cfg.samples, 75)
       IN  /\ out' = Append(out,
                    [name  |-> <<"G", loc.g + 1>>,
                     value |-> <<toFixed2(arr[1]), toFixed2(q1), toFixed2(q2),
                                 toFixed2(q3), toFixed2(arr[Len(arr)])>>])
           /\ loc' = [g |-> loc.g + 1, arr |-> arr]
  /\ UNCHANGED <<viewerVars, pc, cfg, ctx>>

BoxplotReturn ==
  /\ pc = "boxplot.loop"
  /\ loc.g >= cfg.groups
  /\ pc' = "done"
  /\ UNCHANGED <<viewerVars, cfg, loc, out, ctx>>

\* an iteration with an empty sample array: arr[0] is undefined and
\* arr[0].toFixed(2) raises a TypeError
BoxplotThrow ==
  /\ pc = "boxplot.loop"
  /\ loc.g < cfg.groups
  /\ cfg.samples < 1
  /\ pc' = "thrown"
  /\ UNCHANGED <<viewerVars, cfg, loc, out, ctx>>

BoxplotNext == BoxplotGroup \/ BoxplotThrow \/ BoxplotReturn

SpecBoxplot == BoxplotInit /\ [][BoxplotNext]_vars

(***************************************************************************)
(* C3: every group of generateBoxplot (samples >= 1, min <= max) carries a *)
(* five-number value with min <= q1 <= median <= q3 <= max.                *)
(***************************************************************************)
C3_FiveNumbersOrdered ==
  \A k \in 1..Len(out) :
    /\ Len(out[k].value) = 5
    /\ \A j \in 1..4 : out[k].value[j] <= out[k].value[j + 1]

C3_Witness ==
  /\ pc = "done"
  /\ cfg.samples >= 3
  /\ Len(out) >= 2
  /\ out[1].value[1] < out[1].value[3]
  /\ out[1].value[3] < out[1].value[5]
  /\ out[2].value[1] = out[2].value[5]

(***************************************************************************)
(* C18: for a group built from N >= 1 samples sorted ascending as          *)
(* a[0..N-1], the five numbers are a[0], a[floor(0.25*N)], a[floor(0.5*N)],*)
(* a[floor(0.75*N)] and a[N-1], each rounded to two decimals.  loc.arr is  *)
(* the sorted sample of the group built last (0-based index k is           *)
(* loc.arr[k + 1]).                                                        *)
(***************************************************************************)
C18_FloorIndexedQuantiles ==
  (loc.g >= 1 /\ cfg.samples >= 1 /\ pc # "thrown") =>
    LET a == loc.arr
        N == cfg.samples
    IN  /\ Len(a) = N
        /\ \A i \in 1..(N - 1) : a[i] <= a[i + 1]
        /\ Len(out) = loc.g
        /\ out[loc.g].value =
             << toFixed2(a[1]), toFixed2(a[(N \div 4) + 1]),
                toFixed2(a[(N \div 2) + 1]), toFixed2(a[((3 * N) \div 4) + 1]),
                toFixed2(a[N]) >>

\* three distinct samples: the median is the middle one, q1 the lowest and
\* q3 the highest
C18_Witness ==
  /\ pc = "done"
  /\ cfg.samples = 3
  /\ loc.arr[1] < loc.arr[2] /\ loc.arr[2] < loc.arr[3]
  /\ out[Len(out)].value[2] = toFixed2(loc.arr[1])
  /\ out[Len(out)].value[3] = toFixed2(loc.arr[2])
  /\ out[Len(out)].value[4] = toFixed2(loc.arr[3])
  /\ out[Len(out)].value[2] < out[Len(out)].value[3]

(***************************************************************************)
(* generateHeatmap (generateMatrix is the same function)                   *)
(***************************************************************************)
DefaultX == 12
DefaultY == 7

\* small grids with two possible cell values, and the default 12 x 7 grid
HeatmapConfigs ==
  { [x |-> x, y |-> y, min |-> 0, max |-> mx] :
      x \in 0..MaxX, y \in 0..MaxY, mx \in {0, Cent} }
  \cup { [x |-> DefaultX, y |-> DefaultY, min |-> 0, max |-> 0] }

\* Array.from({ length: n }, (_, i) => `${prefix}${i + 1}`)
Labels(prefix, n) == [i \in 1..n |-> <<prefix, i>>]

HeatmapCellSwapped(xi, yi, v) == <<yi, xi, toFixed2(v)>>

\* [xi, yi, Number(rand(min, max).toFixed(2))]
HeatmapCell(xi, yi, v) == <<xi, yi, toFixed2(v)>>

HeatmapInit ==
  /\ pc = "heatmap.rows"
  /\ cfg \in HeatmapConfigs
  /\ loc = [yi |-> 0]
  /\ out = [xLabels |-> Labels("X", cfg.x), yLabels |-> Labels("Y", cfg.y),
            data |-> <<>>]
  /\ ctx = <<>>
  /\ ViewerIdle

\* one iteration of yLabels.forEach: the whole inner xLabels.forEach
HeatmapRow ==
  /\ pc = "heatmap.rows"
  /\ loc.yi < Len(out.yLabels)
  /\ \E vs \in [1..Len(out.xLabels) -> rand(cfg.min, cfg.max)] :
       out' = [out EXCEPT !.data =
                 @ \o [k \in 1..Len(out.xLabels) |->
                         HeatmapCell(k - 1, loc.yi, vs[k])]]
  /\ loc' = [yi |-> loc.yi + 1]
  /\ UNCHANGED <<viewerVars, pc, cfg, ctx>>

HeatmapReturn ==
  /\ pc = "heatmap.rows"
  /\ loc.yi >= Len(out.yLabels)
  /\ pc' = "done"
  /\ UNCHANGED <<viewerVars, cfg, loc, out, ctx>>

HeatmapNext == HeatmapRow \/ HeatmapReturn

SpecHeatmap == HeatmapInit /\ [][HeatmapNext]_vars

(***************************************************************************)
(* C4: the returned cell list has exactly x*y entries, every cell is in    *)
(* range and every (xIndex, yIndex) pair of the grid occurs exactly once;  *)
(* the default 12 x 7 grid has 84 cells.                                   *)
(***************************************************************************)
C4_GridCoveredOnce ==
  pc = "done" =>
    /\ Len(out.data) = cfg.x * cfg.y
    /\ \A k \in 1..Len(out.data) :
         /\ out.data[k][1] \in 0..(cfg.x - 1)
         /\ out.data[k][2] \in 0..(cfg.y - 1)
    /\ \A xi \in 0..(cfg.x - 1), yi \in 0..(cfg.y - 1) :
         Cardinality({k \in 1..Len(out.data) :
                        out.data[k][1] = xi /\ out.data[k][2] = yi}) = 1
    /\ (cfg.x = 12 /\ cfg.y = 7) => Len(out.data) = 84

C4_Witness ==
  /\ pc = "done"
  /\ cfg.x = 12 /\ cfg.y = 7
  /\ Len(out.data) = 84
  /\ out.data[84] = <<11, 6, 0>>

(***************************************************************************)
(* buildTree / generateTree (generateTreemap and generateSunburst are the  *)
(* same function).  The random leaf values are read from a tape of draws,  *)
(* used cyclically: draw number k is tape[(k % Len(tape)) + 1].            *)
(***************************************************************************)
\* randInt(min, max) = Math.floor(rand(min, max + 1)), on whole numbers,
\* where rand(a, b) = Math.random() * (b - a) + a: the values min .. max,
\* and for max < min the floors of the numbers in (max + 1, min]
randInt(min, max) == IF max >= min THEN min .. max ELSE (max + 1) .. min

\* the leaf draws the model enumerates, among those of randInt(10, 100)
LeafDraws == {v \in randInt(10, 100) : v \in {10, 55, 100}}

TreeConfigs ==
  { [depth |-> d, breadth |-> b] : d \in 0..MaxDepth, b \in 0..MaxBreadth }

Draw(tape, k) == tape[(k % Len(tape)) + 1]

TreeExhaustedEarly(depth) == depth <= 1

\* if (depth === 0) return [];
TreeExhausted(depth) == depth = 0

\* buildTree(depth, breadth, level, prefix) with k draws already used:
\* [nodes |-> the node list, used |-> the draws used after it].
\* buildNodes builds the nodes i .. breadth-1 of one list, in order.
RECURSIVE buildTree(_, _, _, _, _, _)
RECURSIVE buildNodes(_, _, _, _, _, _, _)
buildNodes(depth, breadth, level, prefix, tape, i, k) ==
  IF i >= breadth THEN [nodes |-> <<>>, used |-> k]
  ELSE
    LET name     == <<prefix, level, i>>
        sub      == buildTree(depth - 1, breadth, level + 1, prefix, tape, k)
        children == sub.nodes
        node     == IF Len(children) # 0
                    THEN [name |-> name, children |-> children]
                    ELSE [name |-> name, value |-> Draw(tape, k)]
        k1       == IF Len(children) # 0 THEN sub.used ELSE k + 1
        rest     == buildNodes(depth, breadth, level, prefix, tape, i + 1, k1)
    IN  [nodes |-> <<node>> \o rest.nodes, used |-> rest.used]

buildTree(depth, breadth, level, prefix, tape, k) ==
  IF TreeExhausted(depth) THEN [nodes |-> <<>>, used |-> k]
  ELSE buildNodes(depth, breadth, level, prefix, tape, 0, k)

\* return { name: 'root', children: buildTree(depth, breadth) };
generateTree(c, tape) ==
  [name |-> "root",
   children |-> buildTree(c.depth, c.breadth, 0, "T", tape, 0).nodes]

TreeInit ==
  /\ pc = "generateTree"
  /\ cfg \in TreeConfigs
  /\ loc \in {[tape |-> t] : t \in [1..TapeLen -> LeafDraws]}
  /\ out = <<>>
  /\ ctx = <<>>
  /\ ViewerIdle

TreeReturn ==
  /\ pc = "generateTree"
  /\ out' = generateTree(cfg, loc.tape)
  /\ pc' = "done"
  /\ UNCHANGED <<viewerVars, cfg, loc, ctx>>

TreeNext == TreeReturn

SpecTree == TreeInit /\ [][TreeNext]_vars

HasChildren(node) == "children" \in DOMAIN node
HasValue(node) == "value" \in DOMAIN node
IsLeaf(node) == HasValue(node) /\ node.value \in Int /\ ~HasChildren(node)

\* every node d levels below `node` is a leaf, and every node above them
\* has exactly b children and no value
RECURSIVE LeavesAt(_, _, _)
LeavesAt(node, d, b) ==
  IF d = 0 THEN IsLeaf(node)
  ELSE /\ HasChildren(node)
       /\ Len(node.children) = b
       /\ ~HasValue(node)
       /\ \A j \in 1..b : LeavesAt(node.children[j], d - 1, b)

(***************************************************************************)
(* C5 (as stated): generateTree({depth:3, breadth:2}) gives a root with 2  *)
(* children, each with 2 children, and those grandchildren are leaves      *)
(* (a value, no children).  Refuted: the grandchildren have children.      *)
(***************************************************************************)
C5_Original ==
  (pc = "done" /\ cfg.depth = 3 /\ cfg.breadth = 2) =>
    /\ Len(out.children) = 2
    /\ \A i \in 1..2 :
         /\ HasChildren(out.children[i])
         /\ Len(out.children[i].children) = 2
         /\ \A j \in 1..2 : IsLeaf(out.children[i].children[j])

(***************************************************************************)
(* C5 (amended): generateTree({depth:3, breadth:2}) gives a root with 2    *)
(* children, each with 2 children, each of which has 2 children, and those *)
(* great-grandchildren are leaves carrying a numeric value and no          *)
(* children; in general (depth, breadth >= 1) the depth counts the levels  *)
(* below the root: the leaves sit depth levels below it.                   *)
(***************************************************************************)
C5_LeavesDepthBelowRoot ==
  pc = "done" =>
    /\ (cfg.depth >= 1 /\ cfg.breadth >= 1) =>
         LeavesAt(out, cfg.depth, cfg.breadth)
    /\ (cfg.depth = 3 /\ cfg.breadth = 2) =>
         /\ Len(out.children) = 2
         /\ \A i \in 1..2 :
              /\ Len(out.children[i].children) = 2
              /\ \A j \in 1..2 :
                   /\ Len(out.children[i].children[j].children) = 2
                   /\ \A l \in 1..2 :
                        IsLeaf(out.children[i].children[j].children[l])

C5_Witness ==
  /\ pc = "done"
  /\ cfg.depth = 3 /\ cfg.breadth = 2
  /\ out.children[2].children[2].children[2].value = 55
  /\ out.children[1].children[1].children[1].value = 100

\* node has a non-empty children list or a numeric value, never both and
\* never neither, and so has every node below it
RECURSIVE ChildrenXorValue(_)
ChildrenXorValue(node) ==
  LET inner == HasChildren(node) /\ Len(node.children) > 0
      leaf  == HasValue(node) /\ node.value \in Int
  IN  /\ inner # leaf
      /\ inner => \A j \in 1..Len(node.children) :
                    ChildrenXorValue(node.children[j])

(***************************************************************************)
(* C11: in every tree generateTree returns, for every depth >= 0 and       *)
(* breadth >= 0, every node including the root has either a non-empty      *)
(* children list or a numeric value, never both and never neither.         *)
(* Refuted by the code: with depth 0 or breadth 0 the root is returned     *)
(* with an empty children list and no value.                               *)
(***************************************************************************)
C11_ChildrenXorValue ==
  pc = "done" => ChildrenXorValue(out)

\* the part of C11 the code keeps: every node below the root has either a
\* non-empty children list or a value, and so has the root when depth and
\* breadth are at least 1
C11_BelowRootXorValue ==
  pc = "done" =>
    /\ \A j \in 1..Len(out.children) : ChildrenXorValue(out.children[j])
    /\ (cfg.depth >= 1 /\ cfg.breadth >= 1) => ChildrenXorValue(out)

\* the root of generateTree({depth: 0, breadth: 2}): no child, no value
C11_EmptyRoot ==
  /\ pc = "done"
  /\ cfg.depth = 0 /\ cfg.breadth = 2
  /\ out.children = <<>>
  /\ ~HasValue(out)

(***************************************************************************)
(* generateGraph.  A node id `N${i}` is the pair <<"N", i>>.  One action   *)
(* per iteration of the spanning loop and of the extra-link loop.          *)
(***************************************************************************)
GraphConfigs ==
  { [nodes |-> n, extraLinks |-> e] : n \in 0..MaxNodes, e \in 0..MaxExtra }

\* the link values the model enumerates, among those of randInt(1, 5)
LinkDraws == {v \in randInt(1, 5) : v \in {1, 5}}

\* Array.from({ length: nodes }, (_, i) => ({ id: `N${i}`, ... }))
GraphNodes(n, v) ==
  [i \in 1..n |-> [id |-> <<"N", i - 1>>, name |-> <<"Node ", i - 1>>,
                   value |-> v]]

SpanLinkSelf(i, src, v) ==
  [source |-> <<"N", i>>, target |-> <<"N", i>>, value |-> v]

\* { source: `N${randInt(0, i - 1)}`, target: `N${i}`, value: randInt(1, 5) }
SpanLink(i, src, v) ==
  [source |-> <<"N", src>>, target |-> <<"N", i>>, value |-> v]

GraphInit ==
  /\ pc = "graph.span"
  /\ cfg \in GraphConfigs
  /\ loc = [i |-> 1, k |-> 0]
  /\ \E v \in {1, 10} :
       out = [nodes |-> GraphNodes(cfg.nodes, v), links |-> <<>>]
  /\ ctx = <<>>
  /\ ViewerIdle

\* for (let i = 1; i < nodes; i++) links.push(...)
GraphSpan ==
  /\ pc = "graph.span"
  /\ loc.i < cfg.nodes
  /\ \E src \in randInt(0, loc.i - 1) : \E v \in LinkDraws :
       out' = [out EXCEPT !.links = Append(@, SpanLink(loc.i, src, v))]
  /\ loc' = [loc EXCEPT !.i = @ + 1]
  /\ UNCHANGED <<viewerVars, pc, cfg, ctx>>

GraphSpanEnd ==
  /\ pc = "graph.span"
  /\ loc.i >= cfg.nodes
  /\ pc' = "graph.extra"
  /\ UNCHANGED <<viewerVars, cfg, loc, out, ctx>>

\* for (let k = 0; k < extraLinks; k++) { a, b; if (a !== b) links.push(...) }
GraphExtra ==
  /\ pc = "graph.extra"
  /\ loc.k < cfg.extraLinks
  /\ \E a \in randInt(0, cfg.nodes - 1) : \E b \in randInt(0, cfg.nodes - 1) :
     \E v \in LinkDraws :
       out' = IF a # b
              THEN [out EXCEPT !.links =
                      Append(@, [source |-> <<"N", a>>, target |-> <<"N", b>>,
                                 value |-> v])]
              ELSE out
  /\ loc' = [loc EXCEPT !.k = @ + 1]
  /\ UNCHANGED <<viewerVars, pc, cfg, ctx>>

GraphReturn ==
  /\ pc = "graph.extra"
  /\ loc.k >= cfg.extraLinks
  /\ pc' = "done"
  /\ UNCHANGED <<viewerVars, cfg, loc, out, ctx>>

GraphNext == GraphSpan \/ GraphSpanEnd \/ GraphExtra \/ GraphReturn

SpecGraph == GraphInit /\ [][GraphNext]_vars

GraphIds == { out.nodes[i].id : i \in 1..Len(out.nodes) }

\* the ids reachable from the ids in seen along the links, either way
RECURSIVE Reach(_, _)
Reach(seen, links) ==
  LET more == { links[j].target : j \in { j \in 1..Len(links) :
                                          links[j].source \in seen } }
              \cup
              { links[j].source : j \in { j \in 1..Len(links) :
                                          links[j].target \in seen } }
  IN  IF more \subseteq seen THEN seen ELSE Reach(seen \cup more, links)

(***************************************************************************)
(* C12: for every output of generateGraph with nodes >= 1 and any          *)
(* extraLinks >= 0, every node is reachable from N0 along the links taken  *)
(* as undirected, and every link's source and target is the id of a node   *)
(* of the node list.                                                       *)
(***************************************************************************)
C12_GraphConnected ==
  (pc = "done" /\ cfg.nodes >= 1) =>
    /\ Len(out.nodes) = cfg.nodes
    /\ \A j \in 1..Len(out.links) :
         /\ out.links[j].source \in GraphIds
         /\ out.links[j].target \in GraphIds
    /\ Reach({<<"N", 0>>}, out.links) = GraphIds

C12_Witness ==
  /\ pc = "done"
  /\ cfg.nodes = 3 /\ cfg.extraLinks = 2
  /\ Len(out.links) = 4
  /\ out.links[2].source = <<"N", 1>>
  /\ out.links[3].target = <<"N", 0>>
  /\ Reach({<<"N", 0>>}, out.links) = {<<"N", 0>>, <<"N", 1>>, <<"N", 2>>}

(***************************************************************************)
(* generateSankey.  One action per iteration of the while loop.            *)
(***************************************************************************)
SankeyConfigs ==
  { [nodes |-> n, links |-> l, min |-> r[1], max |-> r[2]] :
      n \in 0..MaxNodes, l \in 0..MaxLinks, r \in {<<1, 50>>, <<2, 3>>} }

\* Array.from({ length: nodes }, (_, i) => ({ name: `N${i}` }))
SankeyNodes(n) == [i \in 1..n |-> [name |-> <<"N", i - 1>>]]

SankeyInit ==
  /\ pc = "sankey.loop"
  /\ cfg \in SankeyConfigs
  /\ loc = <<>>
  /\ out = [nodes |-> SankeyNodes(cfg.nodes), links |-> <<>>]
  /\ ctx = <<>>
  /\ ViewerIdle

\* const s = randInt(0, nodes - 2); const t = randInt(s + 1, nodes - 1);
\* linkArr.push({ source: `N${s}`, target: `N${t}`, value: randInt(min, max) })
SankeyLink ==
  /\ pc = "sankey.loop"
  /\ Len(out.links) < cfg.links
  /\ \E s \in randInt(0, cfg.nodes - 2) :
     \E t \in randInt(s + 1, cfg.nodes - 1) :
     \E v \in {v \in randInt(cfg.min, cfg.max) : v \in {cfg.min, cfg.max}} :
       out' = [out EXCEPT !.links =
                 Append(@, [source |-> <<"N", s>>, target |-> <<"N", t>>,
                            value |-> v])]
  /\ UNCHANGED <<viewerVars, pc, cfg, loc, ctx>>

SankeyReturn ==
  /\ pc = "sankey.loop"
  /\ Len(out.links) >= cfg.links
  /\ pc' = "done"
  /\ UNCHANGED <<viewerVars, cfg, loc, out, ctx>>

SankeyNext == SankeyLink \/ SankeyReturn

SpecSankey == SankeyInit /\ [][SankeyNext]_vars

\* every link goes from a lower to a higher index, both within the node
\* list, with a positive value
SankeyLinksForward ==
  \A j \in 1..Len(out.links) :
    LET l == out.links[j]
    IN  /\ l.source[1] = "N" /\ l.target[1] = "N"
        /\ 0 <= l.source[2]
        /\ l.source[2] < l.target[2]
        /\ l.target[2] <= cfg.nodes - 1
        /\ \E i \in 1..Len(out.nodes) : out.nodes[i].name = l.source
        /\ \E i \in 1..Len(out.nodes) : out.nodes[i].name = l.target
        /\ l.value > 0

(***************************************************************************)
(* C13: for every output of generateSankey with nodes >= 1 and links >= 0, *)
(* every link has 0 <= source < target <= nodes-1, both naming nodes of    *)
(* the node list, and value > 0.  Refuted by the code: with nodes = 1 the  *)
(* draws are s = randInt(0, -1) = 0 and t = randInt(1, 0) = 1, so every    *)
(* link is N0 -> N1 and N1 is not in the node list.                        *)
(***************************************************************************)
C13_SankeyLinksForward ==
  (pc = "done" /\ cfg.nodes >= 1) =>
    /\ Len(out.links) = cfg.links
    /\ SankeyLinksForward

\* the part of C13 the code keeps: with two or more nodes every link goes
\* forward between nodes of the list
C13_TwoNodesLinksForward ==
  (pc = "done" /\ cfg.nodes >= 2) =>
    /\ Len(out.links) = cfg.links
    /\ SankeyLinksForward

\* generateSankey({nodes: 1, links: 1}): the link N0 -> N1
C13_DanglingTarget ==
  /\ pc = "done"
  /\ cfg.nodes = 1 /\ cfg.links = 1
  /\ Len(out.nodes) = 1
  /\ out.links[1].source = <<"N", 0>>
  /\ out.links[1].target = <<"N", 1>>

(***************************************************************************)
(* Exact fractions [num, den] (den > 0, lowest terms) for the arithmetic   *)
(* that multiplies and divides.                                            *)
(***************************************************************************)
RECURSIVE GCD(_, _)
GCD(a, b) == IF b = 0 THEN a ELSE GCD(b, a % b)

R(n, d) ==
  LET s == IF d < 0 THEN -1 ELSE 1
      g == GCD(Abs(n), Abs(d))
  IN  [num |-> (s * n) \div g, den |-> (s * d) \div g]

RInt(n) == [num |-> n, den |-> 1]
RAdd(a, b) == R(a.num * b.den + b.num * a.den, a.den * b.den)
RSub(a, b) == R(a.num * b.den - b.num * a.den, a.den * b.den)
RMul(a, b) == R(a.num * b.num, a.den * b.den)
RDiv(a, b) == R(a.num * b.den, a.den * b.num)
RLt(a, b) == a.num * b.den < b.num * a.den
RLe(a, b) == a.num * b.den <= b.num * a.den
RAbs(a) == [num |-> Abs(a.num), den |-> a.den]
RMin(a, b) == IF RLe(a, b) THEN a ELSE b

\* Math.round(x): the nearest integer, the larger one on a tie
MathRound(a) == (2 * a.num + a.den) \div (2 * a.den)

(***************************************************************************)
(* generateFunnel                                                          *)
(***************************************************************************)
\* the draws of rand(0.8, 1.2) the model enumerates: 0.8, 1 and 1.15
FunnelDraws == {R(4, 5), R(1, 1), R(23, 20)}

\* drop ratios 0.25, 0.5 and 0.9, all in (0, 1)
FunnelConfigs ==
  { [stages |-> n, startValue |-> RInt(sv), drop |-> d] :
      n \in 1..MaxStages, sv \in {7, 1000},
      d \in {R(1, 4), R(1, 2), R(9, 10)} }

\* current *= (1 - drop * rand(0.8, 1.2))
FunnelDecay(current, drop, r) ==
  RMul(current, RSub(RInt(1), RMul(drop, r)))

FunnelInit ==
  /\ pc = "funnel.loop"
  /\ cfg \in FunnelConfigs
  /\ loc = [i |-> 0, current |-> cfg.startValue]
  /\ out = <<>>
  /\ ctx = <<>>
  /\ ViewerIdle

\* one iteration of the loop
FunnelStage ==
  /\ pc = "funnel.loop"
  /\ loc.i < cfg.stages
  /\ out' = Append(out, [name |-> <<"Stage", loc.i + 1>>,
                         value |-> MathRound(loc.current)])
  /\ \E r \in FunnelDraws :
       loc' = [i |-> loc.i + 1,
               current |-> FunnelDecay(loc.current, cfg.drop, r)]
  /\ UNCHANGED <<viewerVars, pc, cfg, ctx>>

FunnelReturn ==
  /\ pc = "funnel.loop"
  /\ loc.i >= cfg.stages
  /\ pc' = "done"
  /\ UNCHANGED <<viewerVars, cfg, loc, out, ctx>>

FunnelNext == FunnelStage \/ FunnelReturn

SpecFunnel == FunnelInit /\ [][FunnelNext]_vars

(***************************************************************************)
(* C6: generateFunnel with stages = n >= 1, startValue > 0 and a drop in   *)
(* (0, 1) returns n stages, the first with the value startValue, and no    *)
(* stage's value exceeds the value of the stage before it.  Refuted by the *)
(* code: with drop > 5/6 the factor 1 - drop*r can be negative, the        *)
(* running value changes sign and a later stage is larger.                 *)
(***************************************************************************)
C6_FunnelNeverIncreases ==
  pc = "done" =>
    /\ Len(out) = cfg.stages
    /\ RInt(out[1].value) = cfg.startValue
    /\ \A k \in 1..(Len(out) - 1) : out[k + 1].value <= out[k].value

\* the same for the drop ratios up to 5/6, where the factor stays positive
C6_SmallDropNeverIncreases ==
  (pc = "done" /\ RLe(cfg.drop, R(5, 6))) =>
    /\ Len(out) = cfg.stages
    /\ RInt(out[1].value) = cfg.startValue
    /\ \A k \in 1..(Len(out) - 1) : out[k + 1].value <= out[k].value

(***************************************************************************)
(* JavaScript division and multiplication on fractions: a zero divisor     *)
(* gives NaN (0/0) or an infinity instead of raising, and these propagate. *)
(* The three non-finite numbers are the fractions with denominator 0.      *)
(***************************************************************************)
NaN == [num |-> 0, den |-> 0]
Infinity == [num |-> 1, den |-> 0]
NegInfinity == [num |-> -1, den |-> 0]

IsFinite(a) == a.den # 0

JsDiv(a, b) ==
  IF ~IsFinite(a) \/ ~IsFinite(b) THEN NaN
  ELSE IF b.num # 0 THEN RDiv(a, b)
  ELSE IF a.num = 0 THEN NaN
  ELSE IF a.num > 0 THEN Infinity ELSE NegInfinity

JsMul(a, b) ==
  IF a = NaN \/ b = NaN THEN NaN
  ELSE IF IsFinite(a) /\ IsFinite(b) THEN RMul(a, b)
  ELSE IF a.num * b.num = 0 THEN NaN
  ELSE IF a.num * b.num > 0 THEN Infinity ELSE NegInfinity

\* x.toFixed(1) as a fraction: the nearest tenth, the larger in magnitude
\* on a tie
toFixed1(a) ==
  LET t == (2 * Abs(a.num) * 10 + a.den) \div (2 * a.den)
  IN  R((IF a.num < 0 THEN -1 ELSE 1) * t, 10)

\* palette[0] and the gauge background
Palette0 == "#2563eb"
GaugeBackground == "#f0f0f0"

(***************************************************************************)
(* generateScatter.  centers is the array of cluster centres; one action   *)
(* per iteration of the loop over the points.  A function that raises ends *)
(* with pc = "thrown".                                                     *)
(***************************************************************************)
ScatterConfigs ==
  { [points |-> p, clusters |-> c, spread |-> sp, centerRange |-> cr] :
      p \in 0..MaxPoints, c \in -1..MaxClusters, sp \in {1, Cent},
      cr \in {2} }

\* the draws the model enumerates, among those of rand(min, max)
EndDraws(min, max) == {v \in rand(min, max) : v \in {min, max - 1}}

\* Array.from({ length: n }, ...) has no element for n <= 0
ArrayLength(n) == IF n > 0 THEN n ELSE 0

\* i % clusters for i >= 0: NaN for clusters = 0, else the remainder, which
\* has the sign of i
Remainder(i, clusters) ==
  IF clusters = 0 THEN NaN ELSE RInt(i % Abs(clusters))

ScatterInit ==
  /\ pc = "scatter.centers"
  /\ cfg \in ScatterConfigs
  /\ loc = <<>>
  /\ out = <<>>
  /\ ctx = <<>>
  /\ ViewerIdle

\* const centers = Array.from({ length: clusters }, () => [rand, rand])
ScatterCenters ==
  /\ pc = "scatter.centers"
  /\ \E centers \in [1..ArrayLength(cfg.clusters) ->
                       EndDraws(-cfg.centerRange, cfg.centerRange)
                       \X EndDraws(-cfg.centerRange, cfg.centerRange)] :
       loc' = [centers |-> centers, i |-> 0]
  /\ pc' = "scatter.loop"
  /\ UNCHANGED <<viewerVars, cfg, out, ctx>>

\* the index i % clusters names an element of centers
ScatterCenterDefined ==
  LET idx == Remainder(loc.i, cfg.clusters)
  IN  IsFinite(idx) /\ idx.num + 1 \in 1..Len(loc.centers)

\* const [cx, cy] = centers[i % clusters]; data.push([..., ...])
ScatterPoint ==
  /\ pc = "scatter.loop"
  /\ loc.i < cfg.points
  /\ ScatterCenterDefined
  /\ LET c == loc.centers[Remainder(loc.i, cfg.clusters).num + 1]
     IN  \E dx \in EndDraws(-cfg.spread, cfg.spread) :
         \E dy \in EndDraws(-cfg.spread, cfg.spread) :
           out' = Append(out, <<toFixed2(c[1] + dx), toFixed2(c[2] + dy)>>)
  /\ loc' = [loc EXCEPT !.i = @ + 1]
  /\ UNCHANGED <<viewerVars, pc, cfg, ctx>>

\* centers[i % clusters] is undefined: destructuring it raises a TypeError
ScatterThrow ==
  /\ pc = "scatter.loop"
  /\ loc.i < cfg.points
  /\ ~ScatterCenterDefined
  /\ pc' = "thrown"
  /\ UNCHANGED <<viewerVars, cfg, loc, out, ctx>>

ScatterReturn ==
  /\ pc = "scatter.loop"
  /\ loc.i >= cfg.points
  /\ pc' = "done"
  /\ UNCHANGED <<viewerVars, cfg, loc, out, ctx>>

ScatterNext == ScatterCenters \/ ScatterPoint \/ ScatterThrow \/ ScatterReturn

SpecScatter == ScatterInit /\ [][ScatterNext]_vars

(***************************************************************************)
(* C15: no generator raises for any numeric configuration, zero or         *)
(* negative counts included (samples: 0 for boxplot, clusters: 0 for       *)
(* scatter, points: 0): a defined structure is returned.  Refuted by the   *)
(* code: generateScatter with clusters <= 0 and points >= 1 raises a       *)
(* TypeError (and so does generateBoxplot with samples <= 0 and groups     *)
(* >= 1, under SpecBoxplot).                                               *)
(***************************************************************************)
C15_NoGeneratorRaises == pc # "thrown"

\* the part of C15 the code keeps for generateScatter: with clusters >= 1,
\* or with no point to draw, it returns `points` points and does not raise
C15_ScatterDefinedWithClusters ==
  /\ (cfg.clusters >= 1 \/ cfg.points <= 0) => pc # "thrown"
  /\ pc = "done" => Len(out) = ArrayLength(cfg.points)

\* generateScatter({points: 2, clusters: 0}) raised
C15_ScatterRaised ==
  /\ pc = "thrown"
  /\ cfg.clusters = 0 /\ cfg.points = 2
  /\ loc.i = 0

(***************************************************************************)
(* gaugePlugin(rawData).hooks.draw(u)                                      *)
(***************************************************************************)
\* const barHeight = 30;
barHeight == 30

GaugeRaws ==
  { [min |-> RInt(mn), max |-> RInt(mx), value |-> v] :
      mn \in {-20, 0, 10}, mx \in {10, 50, 100},
      v \in {RInt(10), RInt(50), R(1234, 100), RInt(-20), RInt(100)} }

\* raw data whose value is absent
GaugeRawsNoValue ==
  { [min |-> RInt(mn), max |-> RInt(mx)] : mn \in {0}, mx \in {0, 100} }

GaugeBoxes ==
  { [left |-> RInt(l), top |-> RInt(t), width |-> RInt(w), height |-> RInt(h)] :
      l \in {0, 40}, t \in {0, 15}, w \in {0, 200, 333}, h \in {100, 385} }

\* the claim's data: min < max and min <= value <= max, and every other
\* (value, min, max) the plugin can be handed
GaugeInputs ==
  { [rawData |-> r, u |-> [bbox |-> b]] :
      r \in GaugeRaws \cup GaugeRawsNoValue, b \in GaugeBoxes }

\* const { min, max, value } = rawData
GaugeValue(rawData) ==
  IF "value" \in DOMAIN rawData THEN rawData.value ELSE Undefined

GaugePercentNoMin(value, min, max) == JsDiv(value, RSub(max, min))

\* const percent = (value - min) / (max - min);
GaugePercent(value, min, max) == JsDiv(RSub(value, min), RSub(max, min))

GaugeInit ==
  /\ pc = "gauge.draw"
  /\ cfg \in GaugeInputs
  /\ loc = <<>>
  /\ out = <<>>
  /\ ctx = <<>>
  /\ ViewerIdle

\* the draw hook, whole
GaugeDraw ==
  /\ pc = "gauge.draw"
  /\ ~IsUndefined(GaugeValue(cfg.rawData))
  /\ LET bbox    == cfg.u.bbox
         min     == cfg.rawData.min
         max     == cfg.rawData.max
         value   == GaugeValue(cfg.rawData)
         percent == GaugePercent(value, min, max)
         y       == RSub(RAdd(bbox.top, RDiv(bbox.height, RInt(2))),
                         RDiv(RInt(barHeight), RInt(2)))
     IN  ctx' = << [op |-> "fillRect", fillStyle |-> GaugeBackground,
                    x |-> bbox.left, y |-> y, w |-> bbox.width,
                    h |-> RInt(barHeight)],
                   [op |-> "fillRect", fillStyle |-> Palette0,
                    x |-> bbox.left, y |-> y, w |-> JsMul(bbox.width, percent),
                    h |-> RInt(barHeight)],
                   [op |-> "fillText", fillStyle |-> "#333",
                    text |-> <<toFixed1(value), "/", max>>,
                    x |-> RAdd(bbox.left, RDiv(bbox.width, RInt(2))),
                    y |-> RAdd(y, RDiv(RInt(barHeight), RInt(2)))] >>
  /\ pc' = "done"
  /\ UNCHANGED <<viewerVars, cfg, loc, out>>

\* the draw hook with value undefined: percent is NaN, both bars are
\* issued, and value.toFixed(1) raises a TypeError before the text is drawn
GaugeDrawThrow ==
  /\ pc = "gauge.draw"
  /\ IsUndefined(GaugeValue(cfg.rawData))
  /\ LET bbox == cfg.u.bbox
         y    == RSub(RAdd(bbox.top, RDiv(bbox.height, RInt(2))),
                      RDiv(RInt(barHeight), RInt(2)))
     IN  ctx' = << [op |-> "fillRect", fillStyle |-> GaugeBackground,
                    x |-> bbox.left, y |-> y, w |-> bbox.width,
                    h |-> RInt(barHeight)],
                   [op |-> "fillRect", fillStyle |-> Palette0,
                    x |-> bbox.left, y |-> y, w |-> JsMul(bbox.width, NaN),
                    h |-> RInt(barHeight)] >>
  /\ out' = TypeError
  /\ pc' = "thrown"
  /\ UNCHANGED <<viewerVars, cfg, loc>>

GaugeNext == GaugeDraw \/ GaugeDrawThrow

SpecGauge == GaugeInit /\ [][GaugeNext]_vars

(***************************************************************************)
(* C7: for min < max and min <= value <= max on a bounding box of width W, *)
(* the gauge draws a background bar of width W and a foreground bar of     *)
(* width W*(value-min)/(max-min), both from the box's left edge; for       *)
(* {value:50, min:0, max:100} and W = 200 the foreground width is 100.     *)
(***************************************************************************)
C7_GaugeBars ==
  LET r == cfg.rawData
      b == cfg.u.bbox
  IN  (pc = "done" /\ RLt(r.min, r.max) /\ RLe(r.min, r.value)
         /\ RLe(r.value, r.max)) =>
        /\ ctx[1].op = "fillRect" /\ ctx[2].op = "fillRect"
        /\ ctx[1].x = b.left /\ ctx[2].x = b.left
        /\ ctx[1].w = b.width
        /\ IsFinite(ctx[2].w)
        /\ RMul(ctx[2].w, RSub(r.max, r.min))
             = RMul(b.width, RSub(r.value, r.min))
        /\ RLe(RInt(0), ctx[2].w) /\ RLe(ctx[2].w, ctx[1].w)
        /\ (r.value = RInt(50) /\ r.min = RInt(0) /\ r.max = RInt(100)
              /\ b.width = RInt(200)) => ctx[2].w = RInt(100)

C7_Witness ==
  /\ pc = "done"
  /\ cfg.rawData = [min |-> RInt(0), max |-> RInt(100), value |-> RInt(50)]
  /\ cfg.u.bbox.width = RInt(200)
  /\ cfg.u.bbox.left = RInt(40)
  /\ ctx[2].w = RInt(100)
  /\ ctx[2].x = RInt(40)

(***************************************************************************)
(* C16: every drawing strategy, given data with missing or empty fields    *)
(* (no series, empty lists, absent value), emits no drawing command and    *)
(* raises no error.  Refuted by the code for the gauge: with the value     *)
(* absent it fills the background bar and a bar of width NaN, and then     *)
(* raises a TypeError at value.toFixed(1).                                 *)
(***************************************************************************)
C16_AbsentValueDrawsNothing ==
  (pc # "gauge.draw" /\ IsUndefined(GaugeValue(cfg.rawData))) =>
    /\ ctx = <<>>
    /\ pc # "thrown"

\* the gauge hook ended with two rectangles issued and a TypeError
C16_GaugeRaised ==
  /\ pc = "thrown"
  /\ out = TypeError
  /\ Len(ctx) = 2
  /\ ctx[1].op = "fillRect"
  /\ ctx[2].w = NaN

(***************************************************************************)
(* barPlugin().hooks.draw(u).  u.data[1] is the x array, u.data[s + 1] the *)
(* values of series s; u.series has one entry more than there are series.  *)
(* u.valToPos is the plot's value-to-pixel transform, taken to be linear:  *)
(* x |-> xOff + x * xGap and y |-> yOff - y * yScale (pixels grow down).   *)
(***************************************************************************)
palette == <<"#2563eb", "#16a34a", "#dc2626", "#9333ea", "#f59e0b",
             "#0d9488", "#be123c", "#0891b2", "#f472b6", "#475569">>

valToPos(u, v, axis) ==
  IF axis = "x" THEN RAdd(u.xOff, RMul(v, u.xGap))
  ELSE RSub(u.yOff, RMul(v, u.yScale))

\* the value of series s at category i under one of three value patterns
BarVal(pat, s, i) ==
  IF pat = "up" THEN RInt(5)
  ELSE IF pat = "down" THEN R(-725, 100)
  ELSE IF (s + i) % 2 = 0 THEN RInt(5) ELSE R(-725, 100)

\* series arrays of numbers, with data[1][1] possibly null
BarData(S, N) ==
  { <<[i \in 1..N |-> RInt(i - 1)]>> \o
      [s \in 1..S |-> [i \in 1..N |->
          IF hole /\ s = 1 /\ i = 1 THEN Null ELSE BarVal(pat, s, i)]] :
      pat \in {"up", "down", "mixed"}, hole \in BOOLEAN }

BarInputs ==
  UNION { { [u |-> [data |-> d, series |-> [k \in 1..(S + 1) |-> k - 1],
                    xOff |-> RInt(50), xGap |-> g,
                    yOff |-> RInt(300), yScale |-> RInt(2)]] :
              d \in BarData(S, N), g \in {R(1, 2), R(5, 2), RInt(30), R(100, 3)} } :
          S \in 0..MaxSeries, N \in 0..MaxCats }

BarLeftNoOffset(leftStart, s, barWidth) == MathRound(leftStart)

\* Math.round(leftStart + (s-1) * barWidth)
BarLeft(leftStart, s, barWidth) ==
  MathRound(RAdd(leftStart, RMul(RInt(s - 1), barWidth)))

BarDrawnWidthNoPad(barWidth) == MathRound(barWidth)

\* Math.round(barWidth - 2)
BarDrawnWidth(barWidth) == MathRound(RSub(barWidth, RInt(2)))

\* the fillRect call of series s (1-based) at category i (0-based)
BarRect(u, l, i, s) ==
  LET xPos      == valToPos(u, RInt(i), "x")
      leftStart == RSub(xPos, RDiv(l.groupWidth, RInt(2)))
      val       == u.data[s + 1][i + 1]
      yPos      == valToPos(u, val, "y")
      yZero     == valToPos(u, RInt(0), "y")
      height    == RAbs(RSub(yZero, yPos))
  IN  [op |-> "fillRect",
       fillStyle |-> palette[((s - 1) % Len(palette)) + 1],
       x |-> BarLeft(leftStart, s, l.barWidth),
       y |-> MathRound(RMin(yPos, yZero)),
       w |-> BarDrawnWidth(l.barWidth),
       h |-> MathRound(height)]

BarInit ==
  /\ pc = "bar.draw"
  /\ cfg \in BarInputs
  /\ loc = <<>>
  /\ out = <<>>
  /\ ctx = <<>>
  /\ ViewerIdle

\* the hook up to the loop: the two early returns and the bar geometry
BarBegin ==
  /\ pc = "bar.draw"
  /\ LET u           == cfg.u
         seriesCount == Len(u.series) - 1
         len         == Len(u.data[1])
         gap         == IF len > 1
                        THEN RSub(valToPos(u, RInt(1), "x"),
                                  valToPos(u, RInt(0), "x"))
                        ELSE RInt(60)
         groupWidth  == RMul(gap, R(8, 10))
         barWidth    == RDiv(groupWidth, RInt(seriesCount))
     IN  \/ /\ seriesCount <= 0
            /\ pc' = "done"
            /\ UNCHANGED loc
         \/ /\ seriesCount > 0
            /\ len = 0
            /\ pc' = "done"
            /\ UNCHANGED loc
         \/ /\ seriesCount > 0
            /\ len # 0
            /\ pc' = "bar.loop"
            /\ loc' = [i |-> 0, seriesCount |-> seriesCount, len |-> len,
                       gap |-> gap, groupWidth |-> groupWidth,
                       barWidth |-> barWidth]
  /\ UNCHANGED <<viewerVars, cfg, out, ctx>>

\* one iteration of the loop over the categories: a rectangle per series
\* whose value is not null
BarCategory ==
  /\ pc = "bar.loop"
  /\ loc.i < loc.len
  /\ LET drawn == SelectSeq([s \in 1..loc.seriesCount |-> s],
                            LAMBDA s : ~IsNull(cfg.u.data[s + 1][loc.i + 1]))
     IN  ctx' = ctx \o [k \in 1..Len(drawn) |->
                          BarRect(cfg.u, loc, loc.i, drawn[k])]
  /\ loc' = [loc EXCEPT !.i = @ + 1]
  /\ UNCHANGED <<viewerVars, pc, cfg, out>>

BarReturn ==
  /\ pc = "bar.loop"
  /\ loc.i >= loc.len
  /\ pc' = "done"
  /\ UNCHANGED <<viewerVars, cfg, loc, out, ctx>>

BarNext == BarBegin \/ BarCategory \/ BarReturn

SpecBar == BarInit /\ [][BarNext]_vars

BarSeriesCount == Len(cfg.u.series) - 1
BarLen == Len(cfg.u.data[1])
BarAllNonNull ==
  \A s \in 1..BarSeriesCount : \A i \in 1..BarLen : ~IsNull(cfg.u.data[s + 1][i])

\* the half-open x-extents [x, x + w) of two rectangles share a point
XOverlap(a, b) == a.x < b.x + b.w /\ b.x < a.x + a.w

BarSpan == IF BarLen > 1 THEN cfg.u.xGap ELSE RInt(60)
BarGroupWidth == RMul(R(8, 10), BarSpan)
BarSlot == RDiv(BarGroupWidth, RInt(BarSeriesCount))
BarGroupLeft(i) ==
  RSub(RAdd(cfg.u.xOff, RMul(RInt(i), cfg.u.xGap)), RDiv(BarGroupWidth, RInt(2)))
BarPixelY(v) == RSub(cfg.u.yOff, RMul(v, cfg.u.yScale))

(***************************************************************************)
(* C19 (as stated): with S series and category pixel span g, the rectangle *)
(* of the series with 0-based index k has width (0.8*g)/S, its left edge   *)
(* is k*(0.8*g)/S from the group's left edge, its height is                *)
(* |pixel(value) - pixel(0)| and one horizontal edge lies on pixel(0).     *)
(* Refuted: the drawn width is the slot less 2 pixels, and every           *)
(* coordinate is rounded to a whole pixel.                                 *)
(***************************************************************************)
C19_Original ==
  (pc = "done" /\ BarAllNonNull /\ BarLen > 1) =>
    \A i \in 0..(BarLen - 1) : \A s \in 1..BarSeriesCount :
      LET r  == ctx[i * BarSeriesCount + s]
          py == BarPixelY(cfg.u.data[s + 1][i + 1])
          p0 == BarPixelY(RInt(0))
      IN  /\ RInt(r.w) = BarSlot
          /\ RInt(r.x) = RAdd(BarGroupLeft(i), RMul(RInt(s - 1), BarSlot))
          /\ RInt(r.h) = RAbs(RSub(py, p0))
          /\ (RInt(r.y) = p0 \/ RInt(r.y + r.h) = p0)

(***************************************************************************)
(* C19 (amended): with S series and category pixel span g (60 for a single *)
(* category), the group width is 0.8*g and each series has a slot of       *)
(* (0.8*g)/S; the rectangle of the series with 0-based index k has its     *)
(* left edge at round(groupLeft + k*slot), width round(slot - 2), height   *)
(* round(|pixel(value) - pixel(0)|) and top round(min(pixel(value),        *)
(* pixel(0))), so that its baseline edge is within one pixel of            *)
(* round(pixel(0)): the top edge for a value <= 0, the bottom edge         *)
(* otherwise.                                                              *)
(***************************************************************************)
C19_BarGeometry ==
  (pc = "done" /\ BarAllNonNull) =>
    \A i \in 0..(BarLen - 1) : \A s \in 1..BarSeriesCount :
      LET r  == ctx[i * BarSeriesCount + s]
          v  == cfg.u.data[s + 1][i + 1]
          py == BarPixelY(v)
          p0 == BarPixelY(RInt(0))
      IN  /\ r.x = MathRound(RAdd(BarGroupLeft(i), RMul(RInt(s - 1), BarSlot)))
          /\ r.w = MathRound(RSub(BarSlot, RInt(2)))
          /\ r.h = MathRound(RAbs(RSub(py, p0)))
          /\ r.y = MathRound(RMin(py, p0))
          /\ r.h >= 0
          /\ IF RLe(p0, py)
             THEN r.y = MathRound(p0)
             ELSE Abs(r.y + r.h - MathRound(p0)) <= 1

\* two series on three categories 30 pixels apart: slots of 12 pixels,
\* rectangles 10 pixels wide, the second 12 pixels right of the first
C19_Witness ==
  /\ pc = "done"
  /\ BarAllNonNull
  /\ BarSeriesCount = 2 /\ BarLen = 3
  /\ cfg.u.xGap = RInt(30)
  /\ BarSlot = RInt(12)
  /\ ctx[1].w = 10 /\ ctx[2].w = 10
  /\ ctx[2].x = ctx[1].x + 12
  /\ ctx[1].x = 38
  /\ ctx[1].h = 10 /\ ctx[1].y = 290
  /\ ctx[2].h = 15 /\ ctx[2].y = 300

\* the part of C16 the bar strategy keeps: with no series or no category
\* it issues no drawing command
C16_BarEmptyDrawsNothing ==
  (pc = "done" /\ (BarSeriesCount <= 0 \/ BarLen = 0)) => ctx = <<>>

(***************************************************************************)
(* piePlugin(rawData).hooks.draw(u).  Angles are exact multiples of pi: the *)
(* fraction a stands for the angle a*pi, so -Math.PI / 2 is -1/2 and a     *)
(* full turn is 2.  The label position, which takes the cosine and sine of *)
(* the label angle, is kept as that angle and its distance from the        *)
(* centre.  One action per slice.                                          *)
(***************************************************************************)
JsAdd(a, b) ==
  IF IsFinite(a) /\ IsFinite(b) THEN RAdd(a, b)
  ELSE IF a = NaN \/ b = NaN THEN NaN
  ELSE IF ~IsFinite(a) /\ ~IsFinite(b) /\ a # b THEN NaN
  ELSE IF ~IsFinite(a) THEN a ELSE b

PieValues == {RInt(0), RInt(10), R(2575, 100)}

PieRaws ==
  UNION { { [i \in 1..n |-> [name |-> <<"Slice", i>>, value |-> v[i]]] :
              v \in [1..n -> PieValues] } : n \in 0..MaxSlices }

PieBoxes ==
  { [left |-> RInt(40), top |-> RInt(15), width |-> RInt(w), height |-> RInt(h)] :
      w \in {200, 333}, h \in {100, 385} }

\* rawData.reduce((sum, item) => sum + item.value, 0)
RECURSIVE PieTotal(_)
PieTotal(rawData) ==
  IF rawData = <<>> THEN RInt(0)
  ELSE JsAdd(PieTotal(SubSeq(rawData, 1, Len(rawData) - 1)),
             rawData[Len(rawData)].value)

PieSliceAngleHalfTurn(value, total) == JsDiv(value, total)

\* const sliceAngle = (item.value / total) * 2 * Math.PI;
PieSliceAngle(value, total) == JsMul(JsDiv(value, total), RInt(2))

PieInit ==
  /\ pc = "pie.draw"
  /\ cfg \in { [rawData |-> r, u |-> [bbox |-> b]] :
                 r \in PieRaws, b \in PieBoxes }
  /\ loc = <<>>
  /\ out = <<>>
  /\ ctx = <<>>
  /\ ViewerIdle

\* the hook up to the forEach: centre, radius, total and the start angle
PieBegin ==
  /\ pc = "pie.draw"
  /\ LET bbox == cfg.u.bbox
     IN  loc' = [centerX |-> RAdd(bbox.left, RDiv(bbox.width, RInt(2))),
                 centerY |-> RAdd(bbox.top, RDiv(bbox.height, RInt(2))),
                 radius  |-> RMul(RMin(bbox.width, bbox.height), R(35, 100)),
                 total   |-> PieTotal(cfg.rawData),
                 currentAngle |-> R(-1, 2),
                 index   |-> 0]
  /\ pc' = "pie.slices"
  /\ UNCHANGED <<viewerVars, cfg, out, ctx>>

\* one call of the forEach callback
PieSlice ==
  /\ pc = "pie.slices"
  /\ loc.index < Len(cfg.rawData)
  /\ LET item       == cfg.rawData[loc.index + 1]
         sliceAngle == PieSliceAngle(item.value, loc.total)
         labelAngle == JsAdd(loc.currentAngle, JsDiv(sliceAngle, RInt(2)))
     IN  /\ ctx' = ctx \o
               << [op |-> "arc",
                   fillStyle |-> palette[(loc.index % Len(palette)) + 1],
                   x |-> loc.centerX, y |-> loc.centerY, radius |-> loc.radius,
                   startAngle |-> loc.currentAngle,
                   endAngle |-> JsAdd(loc.currentAngle, sliceAngle)],
                  [op |-> "fillText", fillStyle |-> "#fff", text |-> item.name,
                   angle |-> labelAngle,
                   distance |-> RMul(loc.radius, R(7, 10))] >>
         /\ loc' = [loc EXCEPT !.currentAngle = JsAdd(@, sliceAngle),
                               !.index = @ + 1]
  /\ UNCHANGED <<viewerVars, pc, cfg, out>>

PieReturn ==
  /\ pc = "pie.slices"
  /\ loc.index >= Len(cfg.rawData)
  /\ pc' = "done"
  /\ UNCHANGED <<viewerVars, cfg, loc, out, ctx>>

PieNext == PieBegin \/ PieSlice \/ PieReturn

SpecPie == PieInit /\ [][PieNext]_vars

\* the arc of slice i (1-based)
PieArc(i) == ctx[2 * i - 1]

\* the sum of the slice values, taken from the data
RECURSIVE PieSum(_, _)
PieSum(rawData, n) ==
  IF n = 0 THEN RInt(0) ELSE RAdd(PieSum(rawData, n - 1), rawData[n].value)

(***************************************************************************)
(* C20: with slice values v_1..v_n >= 0 and total T > 0, slice i spans the *)
(* angle (v_i/T)*2*pi, the first slice starts at -90 degrees, each slice   *)
(* starts where the previous one ended, and after the last slice the       *)
(* angle has advanced by exactly one full turn.  (Angles in units of pi.)  *)
(***************************************************************************)
C20_PieTilesCircle ==
  LET n == Len(cfg.rawData)
      T == PieSum(cfg.rawData, n)
  IN  (pc = "done" /\ RLt(RInt(0), T)) =>
        /\ Len(ctx) = 2 * n
        /\ \A i \in 1..n :
             /\ PieArc(i).op = "arc"
             /\ IsFinite(PieArc(i).startAngle) /\ IsFinite(PieArc(i).endAngle)
             /\ RMul(RSub(PieArc(i).endAngle, PieArc(i).startAngle), T)
                  = RMul(RInt(2), cfg.rawData[i].value)
             /\ i > 1 => PieArc(i).startAngle = PieArc(i - 1).endAngle
        /\ PieArc(1).startAngle = R(-1, 2)
        /\ PieArc(n).endAngle = R(3, 2)
        /\ loc.currentAngle = RAdd(R(-1, 2), RInt(2))

\* slices 10, 25.75 and 10: the middle slice spans more than half the
\* circle and the last one ends at 270 degrees
C20_Witness ==
  /\ pc = "done"
  /\ Len(cfg.rawData) = 3
  /\ cfg.rawData[1].value = RInt(10)
  /\ cfg.rawData[2].value = R(2575, 100)
  /\ cfg.rawData[3].value = RInt(10)
  /\ PieArc(2).startAngle = RAdd(R(-1, 2), R(2000, 4575))
  /\ RLt(RInt(1), RSub(PieArc(2).endAngle, PieArc(2).startAngle))
  /\ PieArc(3).endAngle = R(3, 2)

\* the part of C16 the pie strategy keeps: an empty slice list draws nothing
C16_PieEmptyDrawsNothing ==
  (pc = "done" /\ cfg.rawData = <<>>) => ctx = <<>>

(***************************************************************************)
(* candlestickPlugin().hooks.draw(u).  u.data is <<x, open, high, low,      *)
(* close>>; one action per row.  A wick is the stroked path                 *)
(* moveTo(from) lineTo(to).                                                *)
(***************************************************************************)
\* const candleWidth = 8;
candleWidth == 8

Bullish == "#16a34a"
Bearish == "#dc2626"

RMax(a, b) == IF RLe(a, b) THEN b ELSE a

\* rows <<open, high, low, close>>: rising, falling, two with close = open,
\* one with a body of less than a pixel
CandleRows ==
  { <<RInt(100), RInt(103), RInt(99), RInt(102)>>,
    <<RInt(102), R(2065, 20), RInt(98), R(1001, 10)>>,
    <<RInt(100), RInt(101), RInt(99), RInt(100)>>,
    <<RInt(100), RInt(100), RInt(100), RInt(100)>>,
    <<RInt(100), RInt(101), RInt(99), R(1001, 10)>> }

CandleData ==
  UNION { { << [i \in 1..n |-> RInt(i - 1)],
               [i \in 1..n |-> r[i][1]], [i \in 1..n |-> r[i][2]],
               [i \in 1..n |-> r[i][3]], [i \in 1..n |-> r[i][4]] >> :
              r \in [1..n -> CandleRows] } : n \in 0..MaxPoints }

CandleBodyHeightRaw(bodyHeight) == bodyHeight

\* Math.max(bodyHeight, 1)
CandleBodyHeight(bodyHeight) == RMax(bodyHeight, RInt(1))

\* const isUp = close[i] >= open[i]; isUp ? '#16a34a' : '#dc2626'
CandleColour(open, close) == IF RLe(open, close) THEN Bullish ELSE Bearish

CandlePluginInit ==
  /\ pc = "candle.draw"
  /\ cfg \in { [u |-> [data |-> d, xOff |-> RInt(50), xGap |-> RInt(12),
                       yOff |-> RInt(300), yScale |-> ys]] :
                 d \in CandleData, ys \in {RInt(2), R(1, 4)} }
  /\ loc = <<>>
  /\ out = <<>>
  /\ ctx = <<>>
  /\ ViewerIdle

\* if (!x || x.length === 0) return;
CandlePluginBegin ==
  /\ pc = "candle.draw"
  /\ IF Len(cfg.u.data[1]) = 0
     THEN pc' = "done" /\ UNCHANGED loc
     ELSE pc' = "candle.loop" /\ loc' = [i |-> 0]
  /\ UNCHANGED <<viewerVars, cfg, out, ctx>>

\* one iteration of the loop over the rows: the wick, then the body
CandlePluginRow ==
  /\ pc = "candle.loop"
  /\ loc.i < Len(cfg.u.data[1])
  /\ LET u      == cfg.u
         i      == loc.i + 1
         xPos   == valToPos(u, u.data[1][i], "x")
         openY  == valToPos(u, u.data[2][i], "y")
         highY  == valToPos(u, u.data[3][i], "y")
         lowY   == valToPos(u, u.data[4][i], "y")
         closeY == valToPos(u, u.data[5][i], "y")
         colour == CandleColour(u.data[2][i], u.data[5][i])
         bodyTop    == RMin(openY, closeY)
         bodyHeight == RAbs(RSub(openY, closeY))
     IN  ctx' = ctx \o
           << [op |-> "stroke", strokeStyle |-> colour, lineWidth |-> 1,
               from |-> <<xPos, highY>>, to |-> <<xPos, lowY>>],
              [op |-> "fillRect", fillStyle |-> colour,
               x |-> RSub(xPos, RDiv(RInt(candleWidth), RInt(2))),
               y |-> bodyTop, w |-> RInt(candleWidth),
               h |-> CandleBodyHeight(bodyHeight)] >>
  /\ loc' = [i |-> loc.i + 1]
  /\ UNCHANGED <<viewerVars, pc, cfg, out>>

CandlePluginReturn ==
  /\ pc = "candle.loop"
  /\ loc.i >= Len(cfg.u.data[1])
  /\ pc' = "done"
  /\ UNCHANGED <<viewerVars, cfg, loc, out, ctx>>

CandlePluginNext == CandlePluginBegin \/ CandlePluginRow \/ CandlePluginReturn

SpecCandlePlugin == CandlePluginInit /\ [][CandlePluginNext]_vars

\* the pixel of a price and of a row's x on the plot cfg.u
CandlePixelY(v) == RSub(cfg.u.yOff, RMul(v, cfg.u.yScale))
CandlePixelX(i) == RAdd(cfg.u.xOff, RMul(cfg.u.data[1][i], cfg.u.xGap))

(***************************************************************************)
(* C21: for every row the wick is one vertical stroke from pixel(high) to  *)
(* pixel(low) at the row's x, the body is a filled rectangle of width 8    *)
(* centred on that x with top min(pixel(open), pixel(close)) and height    *)
(* max(|pixel(open) - pixel(close)|, 1), and the colour is the bullish one *)
(* exactly when close >= open and the bearish one otherwise.               *)
(***************************************************************************)
C21_CandleGeometry ==
  pc = "done" =>
    /\ Len(ctx) = 2 * Len(cfg.u.data[1])
    /\ \A i \in 1..Len(cfg.u.data[1]) :
         LET wick  == ctx[2 * i - 1]
             body  == ctx[2 * i]
             open  == cfg.u.data[2][i]
             close == cfg.u.data[5][i]
             x     == CandlePixelX(i)
             d     == RSub(CandlePixelY(open), CandlePixelY(close))
         IN  /\ wick.op = "stroke"
             /\ wick.from = <<x, CandlePixelY(cfg.u.data[3][i])>>
             /\ wick.to = <<x, CandlePixelY(cfg.u.data[4][i])>>
             /\ body.op = "fillRect"
             /\ body.w = RInt(8)
             /\ RAdd(body.x, RInt(4)) = x
             /\ body.y = (IF RLe(CandlePixelY(open), CandlePixelY(close))
                          THEN CandlePixelY(open) ELSE CandlePixelY(close))
             /\ body.h = (IF RLe(RInt(1), RAbs(d)) THEN RAbs(d) ELSE RInt(1))
             /\ (body.fillStyle = Bullish) = ~RLt(close, open)
             /\ (body.fillStyle = Bearish) = RLt(close, open)
             /\ wick.strokeStyle = body.fillStyle

\* a falling row followed by a row with close = open: the first is bearish
\* with its body as tall as the price difference, the second is bullish
\* with a body of one pixel
C21_Witness ==
  /\ pc = "done"
  /\ Len(cfg.u.data[1]) = 2
  /\ cfg.u.yScale = RInt(2)
  /\ cfg.u.data[2][1] = RInt(102) /\ cfg.u.data[5][1] = R(1001, 10)
  /\ cfg.u.data[2][2] = RInt(100) /\ cfg.u.data[5][2] = RInt(100)
  /\ ctx[2].fillStyle = Bearish /\ ctx[2].h = R(38, 10)
  /\ ctx[4].fillStyle = Bullish /\ ctx[4].h = RInt(1)
  /\ ctx[4].x = RInt(58)

(***************************************************************************)
(* heatmapPlugin(rawData).hooks.draw(u).  The fill style is the template   *)
(* `rgb(${red}, 100, ${blue})`, kept as its three interpolated numbers.    *)
(* One action per cell.                                                    *)
(***************************************************************************)
\* a - b on JavaScript numbers
JsSub(a, b) == JsAdd(a, JsMul(RInt(-1), b))

\* Math.round on JavaScript numbers: NaN and the infinities are returned
JsRound(a) == IF IsFinite(a) THEN RInt(MathRound(a)) ELSE a

\* Math.min(...values) and Math.max(...values); Infinity and -Infinity
\* without arguments
RECURSIVE MathMin(_)
MathMin(vs) ==
  IF Len(vs) = 0 THEN Infinity
  ELSE LET m == MathMin(Tail(vs))
       IN  IF ~IsFinite(m) \/ RLe(Head(vs), m) THEN Head(vs) ELSE m

RECURSIVE MathMax(_)
MathMax(vs) ==
  IF Len(vs) = 0 THEN NegInfinity
  ELSE LET m == MathMax(Tail(vs))
       IN  IF ~IsFinite(m) \/ RLe(m, Head(vs)) THEN Head(vs) ELSE m

\* the value of the k-th cell: all cells alike, all different, or two
\* values in turn
HeatValue(pat, k) ==
  CASE pat = "same" -> RInt(42)
    [] pat = "ramp" -> R(25 * k, 100)
    [] pat = "two"  -> IF k % 2 = 1 THEN R(9999, 100) ELSE R(1, 2)

HeatPatterns == {"same", "ramp", "two"}

\* what generateHeatmap returns for an x by y grid
HeatRaw(x, y, pat) ==
  [xLabels |-> Labels("X", x), yLabels |-> Labels("Y", y),
   data |-> [k \in 1..(x * y) |->
               <<(k - 1) % x, (k - 1) \div x, HeatValue(pat, k)>>]]

HeatBoxes == { [left |-> 40, top |-> 10, width |-> 600, height |-> 280],
               [left |-> 0, top |-> 0, width |-> 7, height |-> 5] }

\* (value - minVal) / (maxVal - minVal)
HeatIntensity(value, minVal, maxVal) ==
  JsDiv(JsSub(value, minVal), JsSub(maxVal, minVal))

\* Math.round(intensity * 255)
HeatRed(intensity) == JsRound(JsMul(intensity, RInt(255)))

\* Math.round((1 - intensity) * 255)
HeatBlue(intensity) == JsRound(JsMul(JsSub(RInt(1), intensity), RInt(255)))

HeatPluginInit ==
  /\ pc = "heatmap.draw"
  /\ cfg \in { [rawData |-> HeatRaw(x, y, pat), bbox |-> b] :
                 x \in 1..MaxX, y \in 1..MaxY, pat \in HeatPatterns,
                 b \in HeatBoxes }
  /\ loc = <<>>
  /\ out = <<>>
  /\ ctx = <<>>
  /\ ViewerIdle

\* the cell size and the extreme values
HeatPluginBegin ==
  /\ pc = "heatmap.draw"
  /\ LET raw    == cfg.rawData
         values == [k \in 1..Len(raw.data) |-> raw.data[k][3]]
     IN  loc' = [k |-> 0,
                 cellWidth  |-> JsDiv(RInt(cfg.bbox.width),
                                      RInt(Len(raw.xLabels))),
                 cellHeight |-> JsDiv(RInt(cfg.bbox.height),
                                      RInt(Len(raw.yLabels))),
                 minVal |-> MathMin(values), maxVal |-> MathMax(values)]
  /\ pc' = "heatmap.cells"
  /\ UNCHANGED <<viewerVars, cfg, out, ctx>>

\* one call of the data.forEach callback
HeatPluginCell ==
  /\ pc = "heatmap.cells"
  /\ loc.k < Len(cfg.rawData.data)
  /\ LET cell      == cfg.rawData.data[loc.k + 1]
         intensity == HeatIntensity(cell[3], loc.minVal, loc.maxVal)
     IN  ctx' = Append(ctx,
           [op |-> "fillRect",
            fillStyle |-> [red |-> HeatRed(intensity), green |-> RInt(100),
                           blue |-> HeatBlue(intensity)],
            x |-> JsAdd(RInt(cfg.bbox.left),
                        JsMul(RInt(cell[1]), loc.cellWidth)),
            y |-> JsAdd(RInt(cfg.bbox.top),
                        JsMul(RInt(cell[2]), loc.cellHeight)),
            w |-> loc.cellWidth, h |-> loc.cellHeight])
  /\ loc' = [loc EXCEPT !.k = @ + 1]
  /\ UNCHANGED <<viewerVars, pc, cfg, out>>

HeatPluginReturn ==
  /\ pc = "heatmap.cells"
  /\ loc.k >= Len(cfg.rawData.data)
  /\ pc' = "done"
  /\ UNCHANGED <<viewerVars, cfg, loc, out, ctx>>

HeatPluginNext == HeatPluginBegin \/ HeatPluginCell \/ HeatPluginReturn

SpecHeatPlugin == HeatPluginInit /\ [][HeatPluginNext]_vars

\* a colour channel that is an integer in 0..255
IsChannel(c) == IsFinite(c) /\ c.den = 1 /\ c.num \in 0..255

\* the intensity of the k-th cell is a number in [0, 1]
HeatIntensityInUnit(k) ==
  LET t == HeatIntensity(cfg.rawData.data[k][3], loc.minVal, loc.maxVal)
  IN  IsFinite(t) /\ RLe(RInt(0), t) /\ RLe(t, RInt(1))

(***************************************************************************)
(* C22: for every non-empty cell list the intensity of every cell is a     *)
(* defined number in [0, 1], 0 for the minimum cell and 1 for the maximum  *)
(* cell, and both computed colour channels are integers in 0..255,         *)
(* including when all cells carry the same value.                          *)
(***************************************************************************)
C22_IntensityDefined ==
  pc = "done" =>
    \A k \in 1..Len(ctx) :
      /\ HeatIntensityInUnit(k)
      /\ IsChannel(ctx[k].fillStyle.red)
      /\ IsChannel(ctx[k].fillStyle.blue)
      /\ (cfg.rawData.data[k][3] = loc.minVal =>
            ctx[k].fillStyle.red = RInt(0))
      /\ (cfg.rawData.data[k][3] = loc.maxVal =>
            ctx[k].fillStyle.red = RInt(255))

\* C22 for cell lists that carry at least two different values
C22_DistinctValuesInRange ==
  (pc = "done" /\ loc.minVal # loc.maxVal) =>
    \A k \in 1..Len(ctx) :
      /\ HeatIntensityInUnit(k)
      /\ IsChannel(ctx[k].fillStyle.red)
      /\ IsChannel(ctx[k].fillStyle.blue)
      /\ (cfg.rawData.data[k][3] = loc.minVal =>
            ctx[k].fillStyle.red = RInt(0) /\ ctx[k].fillStyle.blue = RInt(255))
      /\ (cfg.rawData.data[k][3] = loc.maxVal =>
            ctx[k].fillStyle.red = RInt(255) /\ ctx[k].fillStyle.blue = RInt(0))

\* a drawn grid whose cells all carry 42: every fill style is
\* rgb(NaN, 100, NaN)
C22_AllEqualGivesNaN ==
  /\ pc = "done"
  /\ Len(ctx) >= 2
  /\ loc.minVal = loc.maxVal
  /\ \A k \in 1..Len(ctx) :
       ctx[k].fillStyle.red = NaN /\ ctx[k].fillStyle.blue = NaN

(***************************************************************************)
(* generateBar, generatePictorialBar and the 'bar' / 'pictorialBar' case   *)
(* of buildUplotConfig.  A JavaScript value is [array |-> its elements] or *)
(* [object |-> its properties]; reading a property gives [value |-> v] or  *)
(* Undefined.  The random values are read from a tape of draws, cyclically.*)
(***************************************************************************)
Prop(v, key) ==
  IF "object" \in DOMAIN v /\ key \in DOMAIN v.object
  THEN [value |-> v.object[key]]
  ELSE Undefined

\* the draws the model enumerates for Number(rand(min, max).toFixed(2))
BarDraws == {toFixed2(v) : v \in {10 * 100 * Cent + 1, 120 * 100 * Cent - 1}}

\* generateBar({ categories, series })
generateBar(c, tape) ==
  LET cats == [i \in 1..c.categories |-> <<"C", i>>]
      ser  == [s \in 1..c.series |->
                 [name |-> <<"S", s>>,
                  data |-> [i \in 1..c.categories |->
                              Draw(tape, (s - 1) * c.categories + i - 1)]]]
  IN  [object |-> [categories |-> cats, series |-> ser]]

\* generatePictorialBar({ categories })
generatePictorialBar(c, tape) ==
  [array |-> [i \in 1..c.categories |->
                [name |-> <<"P", i>>, value |-> Draw(tape, i - 1)]]]

\* case 'bar': case 'pictorialBar': of buildUplotConfig, the data and the
\* series labels of the configuration it returns
BarCase(raw) ==
  LET categories == Prop(raw, "categories")
      series     == Prop(raw, "series")
  IN  IF IsUndefined(categories) \/ IsUndefined(series)
      THEN TypeError      \* raw.categories.map: map of undefined
      ELSE [returned |->
              [data |-> <<[i \in 1..Len(categories.value) |-> i - 1]>> \o
                        [s \in 1..Len(series.value) |-> series.value[s].data],
               series |-> <<"x">> \o
                          [s \in 1..Len(series.value) |-> series.value[s].name],
               plugins |-> <<"barPlugin">>]]

BarPathInit ==
  /\ pc = "bar.generate"
  /\ cfg \in { [type |-> t, config |-> [categories |-> n, series |-> s]] :
                 t \in {"bar", "pictorialBar"}, n \in 0..MaxCats,
                 s \in 0..MaxSeries }
  /\ loc \in { [tape |-> t] : t \in [1..TapeLen -> BarDraws] }
  /\ out = <<>>
  /\ ctx = <<>>
  /\ ViewerIdle

\* buildMock(type, config) for the two bar archetypes
BarPathGenerate ==
  /\ pc = "bar.generate"
  /\ loc' = [tape |-> loc.tape,
             raw |-> IF cfg.type = "bar"
                     THEN generateBar(cfg.config, loc.tape)
                     ELSE generatePictorialBar(cfg.config, loc.tape)]
  /\ pc' = "bar.config"
  /\ UNCHANGED <<viewerVars, cfg, out, ctx>>

\* buildUplotConfig(type, raw)
BarPathConfig ==
  /\ pc = "bar.config"
  /\ out' = BarCase(loc.raw)
  /\ pc' = "done"
  /\ UNCHANGED <<viewerVars, cfg, loc, ctx>>

BarPathNext == BarPathGenerate \/ BarPathConfig

SpecBarPath == BarPathInit /\ [][BarPathNext]_vars

\* raw is a category label list plus exactly one series aligned with it
SingleSeriesBarShape(raw) ==
  /\ ~IsUndefined(Prop(raw, "categories"))
  /\ ~IsUndefined(Prop(raw, "series"))
  /\ Len(raw.object.series) = 1
  /\ Len(raw.object.series[1].data) = Len(raw.object.categories)

(***************************************************************************)
(* C14: the data generated for pictorialBar has the shape of bar's         *)
(* single-series case (a category label list plus one series aligned 1:1   *)
(* with it), and the bar case of buildUplotConfig accepts it and returns a *)
(* configuration.  Refuted by the code: generatePictorialBar returns an    *)
(* array of {name, value}, which has no categories and no series, and the  *)
(* bar case throws a TypeError on raw.categories.map.                      *)
(***************************************************************************)
C14_PictorialBarIsBarShaped ==
  (pc = "done" /\ cfg.type = "pictorialBar") =>
    /\ SingleSeriesBarShape(loc.raw)
    /\ "returned" \in DOMAIN out
    /\ Len(out.returned.data) = 2
    /\ Len(out.returned.data[2]) = cfg.config.categories

\* what the bar case does accept: generateBar's output with one series
C14_SingleSeriesBarAccepted ==
  (pc = "done" /\ cfg.type = "bar") =>
    /\ "returned" \in DOMAIN out
    /\ Len(out.returned.data) = cfg.config.series + 1
    /\ \A k \in 1..Len(out.returned.data) :
         Len(out.returned.data[k]) = cfg.config.categories
    /\ cfg.config.series = 1 => SingleSeriesBarShape(loc.raw)

\* generatePictorialBar({categories: 3}) handed to the bar case throws
C14_PictorialBarThrows ==
  /\ pc = "done"
  /\ cfg.type = "pictorialBar" /\ cfg.config.categories = 3
  /\ Len(loc.raw.array) = 3
  /\ out = TypeError

(***************************************************************************)
(* The UPlotDemo component.  A render computes the memoised raw data and   *)
(* configuration from the state, commits the markup (which attaches or     *)
(* detaches the chart container) and then runs the effects whose           *)
(* dependencies changed; the state the effects set is rendered next.       *)
(* Objects are told apart by what they were computed from: the raw data of *)
(* (dataset, params, regenKey) and the configuration of (dataset, raw).    *)
(* A parameter record is [of |-> the schema it follows, edit |-> how the   *)
(* user changed it]: "zero" is an edit that empties a count.               *)
(***************************************************************************)
DATASETS ==
  {"line", "bar", "pie", "scatter", "candlestick", "radar", "boxplot",
   "heatmap", "graph", "tree", "treemap", "sunburst", "sankey", "funnel",
   "gauge", "pictorialBar", "calendar", "matrix"}

SUPPORTED ==
  {"line", "bar", "scatter", "pie", "candlestick", "boxplot", "heatmap",
   "funnel", "gauge", "pictorialBar", "calendar", "matrix"}

SchemasOfLine(d) == [of |-> "line", edit |-> "default"]

\* { ...SCHEMAS[d] }
SCHEMAS(d) == [of |-> d, edit |-> "default"]

Edits == {"default", "valid", "zero"}

\* the archetypes the user picks in the model: supported ones whose data
\* and configuration are built, one whose generator can fail (boxplot), one
\* whose configuration fails (pictorialBar), and unsupported ones
ViewerChoices == {"line", "gauge", "boxplot", "pictorialBar", "sankey", "radar"}

Div == [el |-> "div"]

\* generateScatter reads centers[i % clusters] with clusters = 0 and
\* generateBoxplot reads arr[0] of an empty sample array: a TypeError
GeneratorThrows(type, p) ==
  /\ type \in {"scatter", "boxplot"}
  /\ p.of = type
  /\ p.edit = "zero"

\* the raw useMemo: buildMock(dataset, params), null if it throws
computeRaw(d, p, k) ==
  IF GeneratorThrows(d, p) THEN Null
  ELSE [type |-> d, params |-> p, key |-> k]

\* the case labels of buildUplotConfig's switch
ConfigCases ==
  {"line", "bar", "pictorialBar", "scatter", "pie", "candlestick", "boxplot",
   "heatmap", "matrix", "funnel", "gauge", "calendar"}

\* the cases that read a property of raw throw on null; the bar case reads
\* raw.categories, which the array generatePictorialBar returns does not have
ConfigThrows(type, raw) ==
  \/ type = "pictorialBar"
  \/ IsNull(raw) /\ type # "pie"

buildUplotConfig(type, raw) ==
  IF type \in ConfigCases THEN [type |-> type, raw |-> raw] ELSE Null

\* the config useMemo
computeConfig(d, raw) ==
  IF d \notin SUPPORTED THEN Null
  ELSE IF d \in ConfigCases /\ ConfigThrows(d, raw) THEN Null
  ELSE buildUplotConfig(d, raw)

\* const isSupported = SUPPORTED.includes(dataset)
isSupported(d) == d \in SUPPORTED

\* the state differs from what was last rendered: a render is scheduled
Dirty ==
  /\ mounted
  /\ \/ rendered.dataset # dataset
     \/ rendered.params # params
     \/ rendered.regenKey # regenKey
     \/ rendered.isLoading # isLoading

AliveNoDestroy == alive

\* uplotRef.current.destroy(); uplotRef.current = null  (when it is set)
AliveAfterDestroy == IF IsNull(uplotRef) THEN alive ELSE alive - 1

\* One render of the component with state (d, p, k, l) after the render
\* prev (Null for the first), its commit and its effects.
Commit(d, p, k, l, prev) ==
  LET first     == IsNull(prev)
      raw       == IF ~first /\ prev.dataset = d /\ prev.params = p
                              /\ prev.regenKey = k
                   THEN prev.raw ELSE computeRaw(d, p, k)
      config    == IF ~first /\ prev.dataset = d /\ prev.raw = raw
                   THEN prev.config ELSE computeConfig(d, raw)
      container == IF isSupported(d) /\ ~IsNull(config) THEN Div ELSE Null
      runReset  == first \/ prev.dataset # d
      runChart  == first \/ prev.config # config \/ prev.dataset # d
      cleanup   == ~first /\ prev.cleanup
      start     == ~IsNull(config) /\ ~IsNull(container)
  IN  /\ chartRef' = container
      /\ dataset' = d
      \* useEffect(..., [dataset])
      /\ params' = IF runReset THEN SCHEMAS(d) ELSE p
      /\ regenKey' = IF runReset THEN k + 1 ELSE k
      \* useEffect(..., [config, dataset]): the cleanup of the last run,
      \* then the body
      /\ uplotRef' = IF runChart /\ cleanup THEN Null ELSE uplotRef
      /\ alive' = IF runChart /\ cleanup THEN AliveAfterDestroy ELSE alive
      /\ timer' = IF runChart
                  THEN IF start THEN [config |-> config, dataset |-> d]
                       ELSE IF cleanup THEN Null ELSE timer
                  ELSE timer
      /\ isLoading' = IF runChart /\ start THEN TRUE ELSE l
      /\ rendered' = [dataset |-> d, params |-> p, regenKey |-> k,
                      isLoading |-> l, raw |-> raw, config |-> config,
                      cleanup |-> IF runChart THEN start ELSE cleanup]

ViewerInit ==
  /\ pc = "viewer"
  /\ cfg = <<>>
  /\ loc = <<>>
  /\ out = <<>>
  /\ ctx = <<>>
  /\ ViewerIdle

\* the component is mounted: the useState initial values, the first render
Mount ==
  /\ ~mounted
  /\ mounted' = TRUE
  /\ pc' = "viewer"
  /\ Commit("line", SCHEMAS("line"), 0, FALSE, Null)
  /\ UNCHANGED <<cfg, loc, out, ctx>>

\* a re-render after a state change
Render ==
  /\ Dirty
  /\ Commit(dataset, params, regenKey, isLoading, rendered)
  /\ UNCHANGED <<genVars, mounted>>

\* the select's onChange: setDataset(e.target.value)
SelectDataset(d) ==
  /\ mounted
  /\ ~Dirty
  /\ d # dataset
  /\ regenKey < MaxRegen
  /\ dataset' = d
  /\ UNCHANGED <<genVars, mounted, params, regenKey, isLoading, chartRef,
                 uplotRef, timer, rendered, alive>>

\* a parameter input's onChange (the inputs exist for supported types)
EditParam(e) ==
  /\ mounted
  /\ ~Dirty
  /\ isSupported(dataset)
  /\ e # params.edit
  /\ params' = [params EXCEPT !.edit = e]
  /\ UNCHANGED <<genVars, mounted, dataset, regenKey, isLoading, chartRef,
                 uplotRef, timer, rendered, alive>>

\* the Regenerate button (it exists for supported types)
Regenerate ==
  /\ mounted
  /\ ~Dirty
  /\ isSupported(dataset)
  /\ regenKey < MaxRegen
  /\ regenKey' = regenKey + 1
  /\ UNCHANGED <<genVars, mounted, dataset, params, isLoading, chartRef,
                 uplotRef, timer, rendered, alive>>

\* the setTimeout callback of the chart effect, 100 ms after it was set,
\* unless clearTimeout removed it; created is whether new uPlot(...)
\* returned rather than threw
TimerFire(created) ==
  /\ ~Dirty
  /\ ~IsNull(timer)
  /\ LET make == ~IsNull(chartRef) /\ created
     IN  /\ uplotRef' = IF make THEN [config |-> timer.config] ELSE Null
         /\ alive' = IF make THEN AliveAfterDestroy + 1 ELSE AliveAfterDestroy
  /\ isLoading' = FALSE
  /\ timer' = Null
  /\ UNCHANGED <<genVars, mounted, dataset, params, regenKey, chartRef,
                 rendered>>

UnmountKeepTimer ==
  /\ mounted
  /\ mounted' = FALSE
  /\ pc' = "unmounted"
  /\ alive' = AliveAfterDestroy
  /\ dataset' = "line"
  /\ params' = Null
  /\ regenKey' = 0
  /\ isLoading' = FALSE
  /\ chartRef' = Null
  /\ uplotRef' = Null
  /\ timer' = timer
  /\ rendered' = Null
  /\ UNCHANGED <<cfg, loc, out, ctx>>

\* the component is removed: the cleanups of both effects run and the
\* state is dropped
Unmount ==
  /\ mounted
  /\ mounted' = FALSE
  /\ pc' = "unmounted"
  /\ alive' = AliveAfterDestroy
  /\ dataset' = "line"
  /\ params' = Null
  /\ regenKey' = 0
  /\ isLoading' = FALSE
  /\ chartRef' = Null
  /\ uplotRef' = Null
  /\ timer' = IF rendered.cleanup THEN Null ELSE timer
  /\ rendered' = Null
  /\ UNCHANGED <<cfg, loc, out, ctx>>

ViewerNext ==
  \/ Mount
  \/ Render
  \/ \E d \in ViewerChoices : SelectDataset(d)
  \/ \E e \in Edits : EditParam(e)
  \/ Regenerate
  \/ \E created \in BOOLEAN : TimerFire(created)
  \/ Unmount

SpecViewer == ViewerInit /\ [][ViewerNext]_vars

\* the panel "이 차트 타입은 아직 구현되지 않았습니다" is on screen
GapPanelShown == ~isSupported(rendered.dataset) /\ ~rendered.isLoading

\* the panel "차트를 생성하는 중..." is on screen
LoadingPanelShown == rendered.isLoading

C9_UnsupportedDrawsNothing ==
  (mounted /\ ~Dirty /\ ~isSupported(dataset)) =>
    /\ IsNull(uplotRef)
    /\ alive = 0
    /\ IsNull(timer)
    /\ IsNull(rendered.config)
    /\ IsNull(chartRef)

\* the state C9 fails in: an unsupported archetype, settled, with the
\* loading panel in place of the capability-gap panel
C9_StuckLoading ==
  /\ mounted /\ ~Dirty /\ ~isSupported(dataset)
  /\ LoadingPanelShown
  /\ IsNull(timer)

\* the ordinary case: the gap panel is shown for an unsupported archetype
C9_GapShown ==
  /\ mounted /\ ~Dirty /\ dataset = "sankey"
  /\ GapPanelShown

(***************************************************************************)
(* C23: at most one uPlot instance is alive at any time: the instances     *)
(* alive are exactly the one uplotRef holds, so a new one is created only  *)
(* after the previous one was destroyed.                                   *)
(***************************************************************************)
C23_AtMostOneInstance ==
  /\ alive \in {0, 1}
  /\ (alive = 1) = ~IsNull(uplotRef)

\* an instance is alive for gauge data generated after at least two
\* earlier generations, so after the timer fired more than once
C23_Witness ==
  /\ mounted /\ ~Dirty
  /\ alive = 1
  /\ uplotRef.config.type = "gauge"
  /\ uplotRef.config.raw.key = MaxRegen
  /\ uplotRef.config = rendered.config
  /\ IsNull(timer)

(***************************************************************************)
(* The viewer with its scheduling: a scheduled render is carried out and a *)
(* pending timer fires.  What the user does is not forced.                 *)
(***************************************************************************)
SpecViewerLive ==
  /\ ViewerInit
  /\ [][ViewerNext]_vars
  /\ WF_vars(Render)
  /\ WF_vars(\E created \in BOOLEAN : TimerFire(created))

\* a step of the program itself, not of the user
ProgramStep == Render \/ \E created \in BOOLEAN : TimerFire(created)

(***************************************************************************)
(* C24: whenever the chart-creation effect has set the loading flag, the   *)
(* flag eventually returns to false without further user input: if from    *)
(* some point on the user does nothing, a loading flag that is set is      *)
(* cleared later.  Refuted by the code: a render that leaves the effect    *)
(* without a configuration or container (an unsupported archetype, a       *)
(* failed configuration) runs the cleanup, which cancels the timer, and    *)
(* sets no new one, so nothing is left to clear the flag.                  *)
(***************************************************************************)
C24_LoadingEventuallyClears ==
  (<>[][ProgramStep]_vars) => ((mounted /\ isLoading) ~> ~isLoading)

\* the state C24 fails in: the flag is set, no render is scheduled and no
\* timer is pending
C24_LoadingStuck ==
  /\ mounted /\ isLoading /\ ~Dirty
  /\ IsNull(timer)

\* where the flag is set and a timer is pending, the flag is cleared when
\* it fires
C24_TimerClearsLoading ==
  [][(\E created \in BOOLEAN : TimerFire(created)) => ~isLoading']_vars

(***************************************************************************)
(* C25: once the component is unmounted no uPlot instance remains alive    *)
(* and no timer is pending that could fire afterwards and create one.      *)
(***************************************************************************)
C25_UnmountLeavesNothing ==
  pc = "unmounted" =>
    /\ alive = 0
    /\ IsNull(uplotRef)
    /\ IsNull(timer)

C25_Witness ==
  /\ pc = "unmounted"
  /\ ~mounted
  /\ alive = 0
  /\ IsNull(timer)

(***************************************************************************)
(* The state the four demo viewers share (UPlotDemo, ApexDemo, ChartjsDemo *)
(* and EChartsDemo): dataset, params and regenKey, the effect that resets  *)
(* the parameters when the dataset changes, and the raw memo.  cfg.viewer  *)
(* is the viewer.  ApexDemo generates nothing for an archetype outside its *)
(* own SUPPORTED list; UPlotDemo catches what buildMock throws; in the     *)
(* other three a throw leaves the render and React removes the component.  *)
(***************************************************************************)
Viewers == {"uplot", "apex", "chartjs", "echarts"}

ApexSupported ==
  {"line", "bar", "pie", "scatter", "candlestick", "radar", "boxplot",
   "heatmap", "treemap", "pictorialBar", "gauge", "matrix"}

\* the archetypes whose parameter inputs and Regenerate button are shown
DemoControls(v) ==
  CASE v = "uplot" -> SUPPORTED
    [] v = "apex"  -> ApexSupported
    [] OTHER       -> DATASETS

\* the raw useMemo of viewer v
DemoRaw(v, d, p, k) ==
  IF v = "uplot" THEN computeRaw(d, p, k)
  ELSE IF v = "apex" /\ d \notin ApexSupported THEN Null
  ELSE IF GeneratorThrows(d, p) THEN TypeError
  ELSE [type |-> d, params |-> p, key |-> k]

DemoDirty ==
  /\ mounted
  /\ \/ rendered.dataset # dataset
     \/ rendered.params # params
     \/ rendered.regenKey # regenKey

\* one render with state (d, p, k) after the render prev (Null for the
\* first), and the effect on [dataset]
DemoCommit(d, p, k, prev) ==
  LET first    == IsNull(prev)
      raw      == IF ~first /\ prev.dataset = d /\ prev.params = p
                             /\ prev.regenKey = k
                  THEN prev.raw ELSE DemoRaw(cfg.viewer, d, p, k)
      runReset == first \/ prev.dataset # d
  IN  IF raw = TypeError
      THEN /\ pc' = "crashed"
           /\ mounted' = FALSE
           /\ dataset' = "line"
           /\ params' = Null
           /\ regenKey' = 0
           /\ rendered' = Null
      ELSE /\ pc' = "demo"
           /\ mounted' = TRUE
           /\ dataset' = d
           /\ params' = IF runReset THEN SCHEMAS(d) ELSE p
           /\ regenKey' = IF runReset THEN k + 1 ELSE k
           /\ rendered' = [dataset |-> d, params |-> p, regenKey |-> k,
                           raw |-> raw]

DemoInit ==
  /\ pc = "demo"
  /\ cfg \in { [viewer |-> v] : v \in Viewers }
  /\ loc = <<>>
  /\ out = <<>>
  /\ ctx = <<>>
  /\ ViewerIdle

DemoMount ==
  /\ pc = "demo"
  /\ ~mounted
  /\ DemoCommit("line", SCHEMAS("line"), 0, Null)
  /\ UNCHANGED <<cfg, loc, out, ctx, isLoading, chartRef, uplotRef, timer,
                 alive>>

DemoRender ==
  /\ DemoDirty
  /\ DemoCommit(dataset, params, regenKey, rendered)
  /\ UNCHANGED <<cfg, loc, out, ctx, isLoading, chartRef, uplotRef, timer,
                 alive>>

\* the select's onChange: setDataset(e.target.value)
DemoSelect(d) ==
  /\ mounted
  /\ ~DemoDirty
  /\ d # dataset
  /\ regenKey < MaxRegen
  /\ dataset' = d
  /\ UNCHANGED <<genVars, mounted, params, regenKey, isLoading, chartRef,
                 uplotRef, timer, rendered, alive>>

\* a parameter input's onChange
DemoEdit(e) ==
  /\ mounted
  /\ ~DemoDirty
  /\ dataset \in DemoControls(cfg.viewer)
  /\ e # params.edit
  /\ params' = [params EXCEPT !.edit = e]
  /\ UNCHANGED <<genVars, mounted, dataset, regenKey, isLoading, chartRef,
                 uplotRef, timer, rendered, alive>>

\* the Regenerate button
DemoRegenerate ==
  /\ mounted
  /\ ~DemoDirty
  /\ dataset \in DemoControls(cfg.viewer)
  /\ regenKey < MaxRegen
  /\ regenKey' = regenKey + 1
  /\ UNCHANGED <<genVars, mounted, dataset, params, isLoading, chartRef,
                 uplotRef, timer, rendered, alive>>

DemoNext ==
  \/ DemoMount
  \/ DemoRender
  \/ \E d \in ViewerChoices : DemoSelect(d)
  \/ \E e \in Edits : DemoEdit(e)
  \/ DemoRegenerate

SpecDemo == DemoInit /\ [][DemoNext]_vars

\* the render that follows a dataset change leaves the default parameters
\* of the new archetype
DemoResetOnChange ==
  (mounted /\ rendered.dataset # dataset /\ mounted') =>
     /\ dataset' = dataset
     /\ params' = [of |-> dataset, edit |-> "default"]

\* with nothing left to render, the parameters follow the schema of the
\* selected archetype and the data on display, if any, was generated for
\* that archetype from those parameters
DemoSettled ==
  (mounted /\ ~DemoDirty) =>
     /\ params.of = dataset
     /\ \/ IsNull(rendered.raw)
        \/ /\ rendered.raw.type = dataset
           /\ rendered.raw.params = params
           /\ rendered.raw.key = regenKey

(***************************************************************************)
(* C27: in each demo viewer, once the effects that follow a dataset change *)
(* have run, the parameter record equals the default schema of the newly   *)
(* selected archetype, and when rendering has settled the data on display  *)
(* is the one generated for the selected archetype from the current        *)
(* parameters, so after a change from those defaults.                      *)
(***************************************************************************)
C27_DefaultsAfterChange == []DemoSettled /\ [][DemoResetOnChange]_vars

\* in the ECharts viewer: after an edit for another archetype, boxplot is
\* on display with data generated from its default parameters
C27_Witness ==
  /\ cfg.viewer = "echarts"
  /\ mounted /\ ~DemoDirty
  /\ dataset = "boxplot"
  /\ regenKey >= 3
  /\ params = [of |-> "boxplot", edit |-> "default"]
  /\ rendered.raw = [type |-> "boxplot", params |-> params, key |-> regenKey]

(***************************************************************************)
(* The dispatch on its own: for an archetype and a parameter record, the   *)
(* raw data as the viewer's raw memo computes it and then the              *)
(* configuration as its config memo computes it.                           *)
(***************************************************************************)
DispatchInit ==
  /\ pc = "dispatch.raw"
  /\ cfg \in { [type |-> t, params |-> [of |-> t, edit |-> e]] :
                 t \in DATASETS, e \in Edits }
  /\ loc = <<>>
  /\ out = <<>>
  /\ ctx = <<>>
  /\ ViewerIdle

DispatchRaw ==
  /\ pc = "dispatch.raw"
  /\ loc' = [raw |-> computeRaw(cfg.type, cfg.params, 0)]
  /\ pc' = "dispatch.config"
  /\ UNCHANGED <<viewerVars, cfg, out, ctx>>

DispatchConfig ==
  /\ pc = "dispatch.config"
  /\ out' = computeConfig(cfg.type, loc.raw)
  /\ pc' = "done"
  /\ UNCHANGED <<viewerVars, cfg, loc, ctx>>

DispatchNext == DispatchRaw \/ DispatchConfig

SpecDispatch == DispatchInit /\ [][DispatchNext]_vars

(***************************************************************************)
(* C17: for each of the eighteen archetypes, the archetype is listed in    *)
(* SUPPORTED if and only if building the render configuration of its       *)
(* generated data returns a configuration.  Refuted by the code for        *)
(* pictorialBar: it is listed and has a switch case, but the case throws   *)
(* on the generator's output (C14) and no configuration results.           *)
(***************************************************************************)
C17_SupportedIffConfigured ==
  (pc = "done" /\ ~IsNull(loc.raw)) =>
    (cfg.type \in SUPPORTED <=> ~IsNull(out))

\* the part of C17 the code keeps: the listed archetypes are exactly the
\* case labels of the switch, no unlisted archetype gets a configuration,
\* and every listed one but pictorialBar gets one from its generated data
C17_SupportedAreTheCases ==
  /\ SUPPORTED = ConfigCases
  /\ SUPPORTED \subseteq DATASETS
  /\ (pc = "done" /\ ~IsNull(loc.raw) /\ cfg.type # "pictorialBar") =>
       (cfg.type \in SUPPORTED <=> ~IsNull(out))
  /\ (pc = "done" /\ cfg.type \notin SUPPORTED) => IsNull(out)

\* pictorialBar with its default parameters: data generated, no configuration
C17_PictorialBarUnconfigured ==
  /\ pc = "done"
  /\ cfg.type = "pictorialBar"
  /\ cfg.type \in SUPPORTED
  /\ ~IsNull(loc.raw)
  /\ IsNull(out)

(***************************************************************************)
(* buildMock(type, config).  GENERATORS is an object literal, so a lookup  *)
(* GENERATORS[type] that finds no own property continues in                *)
(* Object.prototype.  A function is [fn |-> its name]; the module is       *)
(* strict code, so a looked-up function is called with this = undefined.   *)
(***************************************************************************)
GENERATORS ==
  [t \in DATASETS |->
     [fn |-> CASE t = "line"         -> "generateLine"
               [] t = "bar"          -> "generateBar"
               [] t = "pie"          -> "generatePie"
               [] t = "scatter"      -> "generateScatter"
               [] t = "candlestick"  -> "generateCandlestick"
               [] t = "radar"        -> "generateRadar"
               [] t = "boxplot"      -> "generateBoxplot"
               [] t = "heatmap"      -> "generateHeatmap"
               [] t = "graph"        -> "generateGraph"
               [] t = "tree"         -> "generateTree"
               [] t = "treemap"      -> "generateTree"
               [] t = "sunburst"     -> "generateTree"
               [] t = "sankey"       -> "generateSankey"
               [] t = "funnel"       -> "generateFunnel"
               [] t = "gauge"        -> "generateGauge"
               [] t = "pictorialBar" -> "generatePictorialBar"
               [] t = "calendar"     -> "generateCalendar"
               [] t = "matrix"       -> "generateHeatmap"]]

\* the properties every object literal inherits (those the model draws)
ObjectPrototype ==
  [n \in {"constructor", "toString", "valueOf", "hasOwnProperty", "__proto__"} |->
     IF n = "constructor" THEN [fn |-> "Object"]
     ELSE IF n = "__proto__" THEN [object |-> "Object.prototype"]
     ELSE [fn |-> n]]

\* GENERATORS[type]
Lookup(type) ==
  IF type \in DOMAIN GENERATORS THEN GENERATORS[type]
  ELSE IF type \in DOMAIN ObjectPrototype THEN ObjectPrototype[type]
  ELSE Undefined

\* if (!gen): undefined is the only falsy value a lookup yields
Falsy(gen) == "undefined" \in DOMAIN gen

UnknownMockType(type) == [thrown |-> [error |-> "Unknown mock type", name |-> type]]
\* gen(config)
Call(gen, type, config) ==
  IF "fn" \notin DOMAIN gen THEN TypeError      \* gen is not a function
  ELSE IF gen.fn = "Object" THEN [returned |-> config]
  ELSE IF gen.fn = "toString" THEN [returned |-> "[object Undefined]"]
  ELSE IF gen.fn \in {"valueOf", "hasOwnProperty"} THEN TypeError
  ELSE IF GeneratorThrows(type, config) THEN TypeError
  ELSE [returned |-> [by |-> gen.fn, config |-> config]]

MockTypes ==
  DATASETS \cup {"", "Line", "unknown", "constructor", "toString", "valueOf",
                 "hasOwnProperty", "__proto__"}

MockConfigs == { [of |-> d, edit |-> e] : d \in {"line", "boxplot"}, e \in Edits }

MockInit ==
  /\ pc = "buildMock.lookup"
  /\ cfg \in { [type |-> t, config |-> c] : t \in MockTypes, c \in MockConfigs }
  /\ loc = <<>>
  /\ out = <<>>
  /\ ctx = <<>>
  /\ ViewerIdle

\* const gen = GENERATORS[type];
MockLookup ==
  /\ pc = "buildMock.lookup"
  /\ loc' = [gen |-> Lookup(cfg.type)]
  /\ pc' = "buildMock.check"
  /\ UNCHANGED <<viewerVars, cfg, out, ctx>>

\* if (!gen) throw new Error(`Unknown mock type: ${type}`);
MockThrow ==
  /\ pc = "buildMock.check"
  /\ Falsy(loc.gen)
  /\ out' = UnknownMockType(cfg.type)
  /\ pc' = "done"
  /\ UNCHANGED <<viewerVars, cfg, loc, ctx>>

\* return gen(config);
MockCall ==
  /\ pc = "buildMock.check"
  /\ ~Falsy(loc.gen)
  /\ out' = Call(loc.gen, cfg.type, cfg.config)
  /\ pc' = "done"
  /\ UNCHANGED <<viewerVars, cfg, loc, ctx>>

MockNext == MockLookup \/ MockThrow \/ MockCall

SpecMock == MockInit /\ [][MockNext]_vars

(***************************************************************************)
(* C10: buildMock(type, config) fails with the unknown-type error carrying *)
(* the requested name whenever type is not one of the eighteen registered  *)
(* names, and for each registered name it calls that name's generator and  *)
(* does not raise that error.  Refuted by the code: a name that            *)
(* Object.prototype defines ("constructor", "toString", "__proto__", ...)  *)
(* is not registered, yet the lookup finds a value for it and no           *)
(* unknown-type error is raised.                                           *)
(***************************************************************************)
C10_UnknownTypeRejected ==
  pc = "done" =>
    /\ cfg.type \notin DATASETS => out = UnknownMockType(cfg.type)
    /\ cfg.type \in DATASETS =>
         /\ loc.gen = GENERATORS[cfg.type]
         /\ out # UnknownMockType(cfg.type)
         /\ out \in {TypeError,
                     [returned |-> [by |-> loc.gen.fn, config |-> cfg.config]]}

\* the part of C10 the code keeps: registered names reach their generator,
\* and names found neither in GENERATORS nor in Object.prototype are rejected
C10_RegisteredDispatched ==
  pc = "done" =>
    /\ (cfg.type \notin DATASETS /\ cfg.type \notin DOMAIN ObjectPrototype)
         => out = UnknownMockType(cfg.type)
    /\ cfg.type \in DATASETS =>
         /\ loc.gen = GENERATORS[cfg.type]
         /\ out # UnknownMockType(cfg.type)

\* buildMock('toString', config) returned a string instead of failing
C10_InheritedNameReturns ==
  /\ pc = "done"
  /\ cfg.type = "toString"
  /\ out = [returned |-> "[object Undefined]"]

(***************************************************************************)
(* buildMockBundle(requests).  A request is a string, an object with a     *)
(* type and possibly a config, or something else (a number).  The bundle   *)
(* is the function from its keys to their values.  One action per call of  *)
(* the forEach callback.                                                   *)
(***************************************************************************)
MaxRequests == 2

\* the config {}
EmptyConfig == [of |-> "none", edit |-> "default"]

\* buildMock(type, config): what it returns, or what it throws
buildMock(type, config) ==
  IF Falsy(Lookup(type)) THEN UnknownMockType(type)
  ELSE Call(Lookup(type), type, config)

BundleRequests ==
  { [kind |-> "string", type |-> t] :
      t \in {"line", "matrix", "unknown", "toString", "__proto__"} }
  \cup { [kind |-> "object", type |-> t, config |-> c] :
           t \in {"line", "gauge", "Line", "constructor"},
           c \in {Undefined, [of |-> "line", edit |-> "valid"]} }
  \cup { [kind |-> "number"] }

\* bundle[key] = value
BundleSet(bundle, key, value) ==
  [k \in DOMAIN bundle \cup {key} |-> IF k = key THEN value ELSE bundle[k]]

BundleInit ==
  /\ pc = "bundle.forEach"
  /\ cfg \in UNION { [1..n -> BundleRequests] : n \in 0..MaxRequests }
  /\ loc = [i |-> 0, bundle |-> <<>>]
  /\ out = <<>>
  /\ ctx = <<>>
  /\ ViewerIdle

\* one call of the forEach callback that returns
BundleRequest ==
  /\ pc = "bundle.forEach"
  /\ loc.i < Len(cfg)
  /\ LET r      == cfg[loc.i + 1]
         config == IF r.kind = "string" \/ IsUndefined(r.config)
                   THEN EmptyConfig ELSE r.config
     IN  IF r.kind \notin {"string", "object"}
         THEN loc' = [loc EXCEPT !.i = @ + 1]
         ELSE /\ "returned" \in DOMAIN buildMock(r.type, config)
              /\ loc' = [i |-> loc.i + 1,
                         bundle |-> BundleSet(loc.bundle, r.type,
                                      buildMock(r.type, config).returned)]
  /\ UNCHANGED <<viewerVars, pc, cfg, out, ctx>>

\* a call of the callback in which buildMock throws: it leaves forEach and
\* buildMockBundle
BundleThrow ==
  /\ pc = "bundle.forEach"
  /\ loc.i < Len(cfg)
  /\ LET r      == cfg[loc.i + 1]
         config == IF r.kind = "string" \/ IsUndefined(r.config)
                   THEN EmptyConfig ELSE r.config
     IN  /\ r.kind \in {"string", "object"}
         /\ "thrown" \in DOMAIN buildMock(r.type, config)
         /\ out' = buildMock(r.type, config)
  /\ pc' = "thrown"
  /\ UNCHANGED <<viewerVars, cfg, loc, ctx>>

\* return bundle;
BundleReturn ==
  /\ pc = "bundle.forEach"
  /\ loc.i >= Len(cfg)
  /\ out' = [returned |-> loc.bundle]
  /\ pc' = "done"
  /\ UNCHANGED <<viewerVars, cfg, loc, ctx>>

BundleNext == BundleRequest \/ BundleThrow \/ BundleReturn

SpecBundle == BundleInit /\ [][BundleNext]_vars

\* the requests that name an archetype, and the names requested
NamingRequests == {k \in 1..Len(cfg) : cfg[k].kind \in {"string", "object"}}
RequestedNames == {cfg[k].type : k \in NamingRequests}

\* the config of the last request for a name
LastConfig(name) ==
  LET k == CHOOSE k \in NamingRequests :
             /\ cfg[k].type = name
             /\ \A j \in NamingRequests : cfg[j].type = name => j <= k
  IN  IF cfg[k].kind = "string" \/ IsUndefined(cfg[k].config)
      THEN EmptyConfig ELSE cfg[k].config

\* the returned bundle has exactly the requested names as keys, each
\* holding what the name's generator made of the last request's config
BundleHoldsRequested ==
  /\ pc = "done"
  /\ DOMAIN out.returned = RequestedNames
  /\ \A n \in RequestedNames :
       out.returned[n] = [by |-> GENERATORS[n].fn, config |-> LastConfig(n)]

\* the call raised the unknown-type error for the first unregistered name
BundleRejected ==
  /\ pc = "thrown"
  /\ \E k \in NamingRequests :
       /\ cfg[k].type \notin DATASETS
       /\ \A j \in NamingRequests : j < k => cfg[j].type \in DATASETS
       /\ out = UnknownMockType(cfg[k].type)

(***************************************************************************)
(* C30: buildMockBundle(requests) returns a record whose key set is        *)
(* exactly the set of archetype names requested, each key holding the data *)
(* of that archetype's generator for the request's config, the last        *)
(* request winning when a name repeats; if any request names an            *)
(* unregistered archetype the call raises the unknown-type error and       *)
(* returns no bundle.  Refuted by the code through buildMock: a name that  *)
(* Object.prototype defines is unregistered and yet not rejected.          *)
(***************************************************************************)
C30_BundleExact ==
  pc \in {"done", "thrown"} =>
    IF RequestedNames \subseteq DATASETS
    THEN BundleHoldsRequested
    ELSE BundleRejected

\* C30 for requests whose names are registered or are found nowhere
C30_BundleExactOwnNames ==
  (/\ pc \in {"done", "thrown"}
   /\ RequestedNames \cap DOMAIN ObjectPrototype = {}) =>
    IF RequestedNames \subseteq DATASETS
    THEN BundleHoldsRequested
    ELSE BundleRejected

\* buildMockBundle(['line', 'toString']) returned a bundle with both keys
C30_InheritedNameInBundle ==
  /\ pc = "done"
  /\ Len(cfg) = 2
  /\ cfg[1] = [kind |-> "string", type |-> "line"]
  /\ cfg[2] = [kind |-> "string", type |-> "toString"]
  /\ DOMAIN out.returned = {"line", "toString"}
  /\ out.returned["toString"] = "[object Undefined]"

(***************************************************************************)
(* PerformanceBenchmark: runBenchmark and measureSingleChart.  An await    *)
(* ends an action.  The calls into the chart libraries and the browser's   *)
(* measuring interfaces either return or throw; which one is an input.     *)
(* ctx is the page: the chart instances alive (created and not destroyed), *)
(* the children of the shared container, the isRunning and results state.  *)
(* loc is the position of the loops and the measurement in progress, out   *)
(* the local allResults.                                                   *)
(***************************************************************************)
MaxIter == 2

\* the calls that throw in one run are at most this many
MaxFaults == 2

BenchConfigs ==
  { [libraries |-> ls, chartTypes |-> ts, iterations |-> n,
     apexLoaded |-> a, hasData |-> h] :
      ls \in { <<"echarts", "uplot">>, <<"apex", "chartjs">>, <<"uplot">> },
      ts \in { <<"line">>, <<"line", "scatter">> },
      n \in 1..MaxIter, a \in BOOLEAN, h \in BOOLEAN }

\* the number of the measurement at loop position (li, ti, i), from 1
TestNumber(li, ti, i) ==
  ((li - 1) * Len(cfg.chartTypes) + (ti - 1)) * cfg.iterations + i

BenchInit ==
  /\ pc = "bench.idle"
  /\ cfg \in BenchConfigs
  /\ loc = <<>>
  /\ out = <<>>
  /\ ctx = [alive |-> {}, container |-> <<>>, isRunning |-> FALSE,
            results |-> <<>>]
  /\ ViewerIdle

\* runBenchmark up to the first measurement
BenchStart ==
  /\ pc = "bench.idle"
  /\ ctx' = [ctx EXCEPT !.isRunning = TRUE, !.results = <<>>]
  /\ out' = <<>>
  /\ loc' = [li |-> 1, ti |-> 1, i |-> 1, instance |-> Null, result |-> Null,
             faults |-> 0]
  /\ pc' = "measure.create"
  /\ UNCHANGED <<viewerVars, cfg>>

\* whether the library's branch reaches the creation of an instance
BenchCreates(library) ==
  CASE library = "apex"  -> cfg.apexLoaded
    [] library = "uplot" -> cfg.hasData
    [] OTHER             -> TRUE

\* the calls that follow the assignment of chartInstance inside the
\* creation try block: chartInstance.render() and chartInstance.setOption()
BenchCallsAfterCreate(library) == library \in {"apex", "echarts"}

\* measureSingleChart up to its first await outside the creation switch,
\* or to the return in the creation catch block
MeasureCreate(outcome) ==
  /\ pc = "measure.create"
  /\ LET library == cfg.libraries[loc.li]
         inst    == [library |-> library,
                     test |-> TestNumber(loc.li, loc.ti, loc.i)]
         \* echarts.getInstanceByDom(...).dispose()
         kept    == IF library = "echarts"
                    THEN {a \in ctx.alive : a.library # "echarts"}
                    ELSE ctx.alive
         canvas  == IF library = "chartjs" THEN <<"canvas">> ELSE <<>>
     IN  /\ outcome = "throwsAfter" => BenchCallsAfterCreate(library)
         /\ outcome # "created" => BenchCreates(library) /\ loc.faults < MaxFaults
         /\ IF ~BenchCreates(library)
            THEN /\ ctx' = [ctx EXCEPT !.alive = kept, !.container = canvas]
                 /\ loc' = [loc EXCEPT !.instance = Null]
                 /\ pc' = "measure.finish"
            ELSE CASE outcome = "created" ->
                        /\ ctx' = [ctx EXCEPT !.alive = kept \cup {inst},
                                              !.container = <<library>>]
                        /\ loc' = [loc EXCEPT !.instance = inst]
                        /\ pc' = "measure.finish"
                   [] outcome = "throwsBefore" ->
                        /\ ctx' = [ctx EXCEPT !.alive = kept,
                                              !.container = canvas]
                        /\ loc' = [loc EXCEPT !.result = Null, !.faults = @ + 1]
                        /\ pc' = "bench.collect"
                   [] outcome = "throwsAfter" ->
                        /\ ctx' = [ctx EXCEPT !.alive = kept \cup {inst},
                                              !.container = <<library>>]
                        /\ loc' = [loc EXCEPT !.result = Null, !.faults = @ + 1]
                        /\ pc' = "bench.collect"
  /\ UNCHANGED <<viewerVars, cfg, out>>

\* the rest of measureSingleChart: the waits and measurements, the
\* destruction of the instance, the emptying of the container, the result
MeasureFinish(outcome) ==
  /\ pc = "measure.finish"
  /\ outcome = "destroyThrows" => ~IsNull(loc.instance)
  /\ outcome # "measured" => loc.faults < MaxFaults
  /\ CASE outcome = "measured" ->
            /\ ctx' = [ctx EXCEPT !.alive = @ \ {loc.instance},
                                  !.container = <<>>]
            /\ loc' = [loc EXCEPT !.instance = Null,
                         !.result = [library |-> cfg.libraries[loc.li],
                                     chartType |-> cfg.chartTypes[loc.ti]]]
       [] outcome = "destroyThrows" ->
            /\ ctx' = [ctx EXCEPT !.container = <<>>]
            /\ loc' = [loc EXCEPT !.instance = Null, !.faults = @ + 1,
                         !.result = [library |-> cfg.libraries[loc.li],
                                     chartType |-> cfg.chartTypes[loc.ti]]]
       [] outcome = "measureThrows" ->
            /\ ctx' = ctx
            /\ loc' = [loc EXCEPT !.instance = Null, !.result = Null,
                                  !.faults = @ + 1]
  /\ pc' = "bench.collect"
  /\ UNCHANGED <<viewerVars, cfg, out>>

\* runBenchmark after a measurement returned: the result is kept, then the
\* wait, then the next loop position or the end of the run
BenchCollect ==
  /\ pc = "bench.collect"
  /\ LET all == IF IsNull(loc.result) THEN out
                ELSE Append(out, [library |-> loc.result.library,
                                  chartType |-> loc.result.chartType,
                                  iteration |-> loc.i])
         next == IF loc.i < cfg.iterations
                 THEN [loc EXCEPT !.i = @ + 1, !.result = Null]
                 ELSE IF loc.ti < Len(cfg.chartTypes)
                 THEN [loc EXCEPT !.ti = @ + 1, !.i = 1, !.result = Null]
                 ELSE [loc EXCEPT !.li = @ + 1, !.ti = 1, !.i = 1,
                                  !.result = Null]
     IN  /\ out' = all
         /\ loc' = next
         /\ IF next.li > Len(cfg.libraries)
            THEN /\ ctx' = [ctx EXCEPT !.results = all, !.isRunning = FALSE]
                 /\ pc' = "bench.done"
            ELSE /\ ctx' = ctx
                 /\ pc' = "measure.create"
  /\ UNCHANGED <<viewerVars, cfg>>

BenchNext ==
  \/ BenchStart
  \/ \E o \in {"created", "throwsBefore", "throwsAfter"} : MeasureCreate(o)
  \/ \E o \in {"measured", "destroyThrows", "measureThrows"} : MeasureFinish(o)
  \/ BenchCollect

SpecBench == BenchInit /\ [][BenchNext]_vars

\* the position of a result in the library, chart-type, iteration order
ResultNumber(r) ==
  LET li == CHOOSE k \in 1..Len(cfg.libraries) : cfg.libraries[k] = r.library
      ti == CHOOSE k \in 1..Len(cfg.chartTypes) : cfg.chartTypes[k] = r.chartType
  IN  TestNumber(li, ti, r.iteration)

\* the results are in execution order and no more than the measurements
BenchResultsInOrder(rs) ==
  /\ Len(rs) <= Len(cfg.libraries) * Len(cfg.chartTypes) * cfg.iterations
  /\ \A k \in 1..(Len(rs) - 1) : ResultNumber(rs[k]) < ResultNumber(rs[k + 1])

(***************************************************************************)
(* C28: the measurements of a run execute one after another in library,    *)
(* chart-type, iteration order; every instance a measurement creates is    *)
(* destroyed and the shared container emptied before the measurement       *)
(* returns, on success and on every failure path, so no two instances      *)
(* coexist; when the run ends the running flag is false and the results    *)
(* are at most libraries * chartTypes * iterations entries in execution    *)
(* order.  Refuted by the code: the returns in the two catch blocks of     *)
(* measureSingleChart skip the destruction and the emptying.               *)
(***************************************************************************)
C28_SequentialAndClean ==
  /\ Cardinality(ctx.alive) <= 1
  /\ (pc \in {"bench.collect", "bench.done"} =>
        ctx.alive = {} /\ ctx.container = <<>>)
  /\ (pc = "bench.done" => ~ctx.isRunning /\ BenchResultsInOrder(ctx.results))
  /\ (pc \in {"measure.create", "measure.finish", "bench.collect"} =>
        ctx.isRunning /\ BenchResultsInOrder(out))

\* the part of C28 the code keeps on every path: the order, the size of
\* the result list and the running flag
C28_OrderAndFlag ==
  /\ (pc = "bench.done" => ~ctx.isRunning /\ BenchResultsInOrder(ctx.results))
  /\ (pc \in {"measure.create", "measure.finish", "bench.collect"} =>
        /\ ctx.isRunning
        /\ BenchResultsInOrder(out)
        /\ \A k \in 1..Len(out) :
             ResultNumber(out[k]) < TestNumber(loc.li, loc.ti, loc.i)
                                    + (IF pc = "bench.collect" THEN 1 ELSE 0))

\* a run that ended with two instances alive: an ECharts one whose
\* setOption threw and a uPlot one whose measurement threw
C28_TwoInstancesLeft ==
  /\ pc = "bench.done"
  /\ Cardinality(ctx.alive) >= 2
  /\ \E a \in ctx.alive : a.library = "echarts"
  /\ \E a \in ctx.alive : a.library = "uplot"
  /\ ctx.container # <<>>

(***************************************************************************)
(* PerformanceBenchmark: updateDatasetParam and getAverageResults.  A      *)
(* string is the sequence of its pieces, with every "-" a piece of its     *)
(* own, so that split('-') is computed on it.  A parameter object is the   *)
(* sequence of its <<key, value>> pairs in insertion order.                *)
(***************************************************************************)
MaxResults == 3

SyntaxError == [thrown |-> [error |-> "SyntaxError"]]

\* the numerals that occur
Numeral(n) ==
  CASE n = 0 -> "0" [] n = 1 -> "1" [] n = 3 -> "3" [] n = 5 -> "5"
    [] n = 7 -> "7" [] n = 50 -> "50" [] n = 1000 -> "1000"

Magnitudes == {0, 1, 3, 5, 7, 50, 1000}

\* String(n)
NumberToString(n) == IF n < 0 THEN <<"-", Numeral(-n)>> ELSE <<Numeral(n)>>

\* parseInt(value) || 1 for the text of a number input
ParseIntOr1(value) ==
  LET digits == IF Len(value) = 2 /\ value[1] = "-" THEN value[2]
                ELSE IF Len(value) = 1 THEN value[1] ELSE "?"
      sign   == IF Len(value) = 2 THEN -1 ELSE 1
  IN  IF \E n \in Magnitudes : Numeral(n) = digits
      THEN LET n == CHOOSE n \in Magnitudes : Numeral(n) = digits
           IN  IF n = 0 THEN 1 ELSE sign * n
      ELSE 1

DEFAULT_DATASETS ==
  [line |-> << <<"points", 1000>>, <<"series", 3>> >>,
   bar  |-> << <<"categories", 50>>, <<"series", 3>> >>]

\* JSON.stringify of a parameter object
RECURSIVE JsonPairs(_)
JsonPairs(ps) ==
  IF Len(ps) = 0 THEN <<>>
  ELSE <<"\"", Head(ps)[1], "\":">> \o NumberToString(Head(ps)[2])
       \o (IF Len(ps) > 1 THEN <<",">> ELSE <<>>) \o JsonPairs(Tail(ps))

JsonStringify(ps) == <<"{">> \o JsonPairs(ps) \o <<"}">>

\* the pairs of a JSON object's text between its braces, or ok = FALSE
\* for a text that is not JSON
RECURSIVE JsonParsePairs(_)
JsonParsePairs(t) ==
  IF Len(t) < 4 \/ t[1] # "\"" \/ t[3] # "\":"
  THEN [ok |-> FALSE, pairs |-> <<>>]
  ELSE LET at == IF t[4] = "-" THEN 5 ELSE 4
       IN  IF Len(t) < at \/ ~\E n \in Magnitudes : Numeral(n) = t[at]
           THEN [ok |-> FALSE, pairs |-> <<>>]
           ELSE LET n    == CHOOSE n \in Magnitudes : Numeral(n) = t[at]
                    pair == <<t[2], IF at = 5 THEN -n ELSE n>>
                IN  IF Len(t) = at THEN [ok |-> TRUE, pairs |-> <<pair>>]
                    ELSE IF t[at + 1] # "," THEN [ok |-> FALSE, pairs |-> <<>>]
                    ELSE LET rest == JsonParsePairs(SubSeq(t, at + 2, Len(t)))
                         IN  [ok |-> rest.ok, pairs |-> <<pair>> \o rest.pairs]

\* JSON.parse: the object a text denotes, a SyntaxError for a text that is
\* not JSON
JsonParse(text) ==
  IF Len(text) < 2 \/ text[1] # "{" \/ text[Len(text)] # "}"
  THEN SyntaxError
  ELSE IF Len(text) = 2 THEN <<>>
  ELSE LET inner == JsonParsePairs(SubSeq(text, 2, Len(text) - 1))
       IN  IF inner.ok THEN inner.pairs ELSE SyntaxError

\* text.split('-'): the pieces between the separators
RECURSIVE SplitDash(_, _)
SplitDash(text, piece) ==
  IF Len(text) = 0 THEN <<piece>>
  ELSE IF Head(text) = "-" THEN <<piece>> \o SplitDash(Tail(text), <<>>)
  ELSE SplitDash(Tail(text), Append(piece, Head(text)))

\* text.split('-', limit): at most limit pieces, the rest is dropped
Split(text, limit) ==
  LET all == SplitDash(text, <<>>)
  IN  IF Len(all) <= limit THEN all ELSE SubSeq(all, 1, limit)

\* `${result.library}-${result.chartType}-${datasetKey}`
AverageKey(result) ==
  result.library \o <<"-">> \o result.chartType \o <<"-">>
  \o JsonStringify(result.datasetParams)

\* Object.entries(grouped): the keys in the order of their first result
RECURSIVE GroupKeys(_, _)
GroupKeys(rs, seen) ==
  IF Len(rs) = 0 THEN seen
  ELSE LET key == AverageKey(Head(rs))
       IN  GroupKeys(Tail(rs),
                     IF \E k \in 1..Len(seen) : seen[k] = key THEN seen
                     ELSE Append(seen, key))

\* the row of one key
AverageRow(key, rs) ==
  LET parts == Split(key, 3)
  IN  [library |-> parts[1], chartType |-> parts[2],
       datasetParams |-> JsonParse(parts[3]),
       count |-> Cardinality({k \in 1..Len(rs) : AverageKey(rs[k]) = key})]

getAverageResults(rs) ==
  LET keys == GroupKeys(rs, <<>>)
      rows == [k \in 1..Len(keys) |-> AverageRow(keys[k], rs)]
  IN  IF \E k \in 1..Len(rows) : rows[k].datasetParams = SyntaxError
      THEN SyntaxError
      ELSE [value |-> rows]

\* what the user types into a parameter input
AverageInputs ==
  { <<"line", 1, <<"-", "5">> >>, <<"line", 1, <<"abc">> >>,
    <<"line", 2, <<"0">> >>, <<"bar", 2, <<"7">> >> }

\* the measurements of a run that returned a result, in execution order
AverageRuns ==
  { r \in UNION { [1..n -> {"apex", "uplot"} \X {"line", "bar"}] :
                    n \in 0..MaxResults } :
      \A k \in 1..(Len(r) - 1) :
         \/ r[k][1] = r[k + 1][1] /\ r[k][2] = r[k + 1][2]
         \/ r[k][1] = r[k + 1][1] /\ r[k][2] = "line"
         \/ r[k][1] = "apex" /\ r[k + 1][1] = "uplot" }

AverageInit ==
  /\ pc = "average.idle"
  /\ cfg = <<>>
  /\ loc = [datasets |-> DEFAULT_DATASETS, results |-> <<>>]
  /\ out = [value |-> <<>>]
  /\ ctx = <<>>
  /\ ViewerIdle

\* updateDatasetParam(chartType, param, value), param given by its position
updateDatasetParam(chartType, param, value) ==
  /\ pc = "average.idle"
  /\ loc' = [loc EXCEPT !.datasets[chartType][param][2] = ParseIntOr1(value)]
  /\ UNCHANGED <<viewerVars, pc, cfg, out, ctx>>

\* a run ends: setResults(allResults), every result carrying the
\* datasets[chartType] the run read
AverageRun(run) ==
  /\ pc = "average.idle"
  /\ loc' = [loc EXCEPT !.results =
               [k \in 1..Len(run) |->
                  [library |-> <<run[k][1]>>, chartType |-> <<run[k][2]>>,
                   datasetParams |-> loc.datasets[run[k][2]]]]]
  /\ pc' = "average.render"
  /\ UNCHANGED <<viewerVars, cfg, out, ctx>>

\* the render after the run calls getAverageResults()
AverageRender ==
  /\ pc = "average.render"
  /\ out' = getAverageResults(loc.results)
  /\ pc' = IF getAverageResults(loc.results) = SyntaxError THEN "thrown"
           ELSE "average.idle"
  /\ UNCHANGED <<viewerVars, cfg, loc, ctx>>

AverageNext ==
  \/ \E in \in AverageInputs : updateDatasetParam(in[1], in[2], in[3])
  \/ \E run \in AverageRuns : AverageRun(run)
  \/ AverageRender

SpecAverage == AverageInit /\ [][AverageNext]_vars

\* the (library, chartType, datasetParams) combinations of the results
Combinations ==
  { [library |-> loc.results[k].library,
     chartType |-> loc.results[k].chartType,
     datasetParams |-> loc.results[k].datasetParams] :
      k \in 1..Len(loc.results) }

\* rows are one per combination, carry the combination's three fields and
\* count its results
RowsMatchCombinations(rows) ==
  /\ Len(rows) = Cardinality(Combinations)
  /\ \A c \in Combinations :
       \E k \in 1..Len(rows) :
         /\ rows[k].library = c.library
         /\ rows[k].chartType = c.chartType
         /\ rows[k].datasetParams = c.datasetParams
         /\ rows[k].count =
              Cardinality({j \in 1..Len(loc.results) :
                             /\ loc.results[j].library = c.library
                             /\ loc.results[j].chartType = c.chartType
                             /\ loc.results[j].datasetParams = c.datasetParams})

(***************************************************************************)
(* C29: getAverageResults returns exactly one row per distinct (library,   *)
(* chartType, datasetParams) combination of the results, for every value   *)
(* the parameters can take through the inputs, negative integers included; *)
(* each row carries the combination's library, chartType and datasetParams *)
(* and counts its results.  Refuted by the code: the grouping key joins    *)
(* the three parts with "-" and is taken apart with split('-', 3), which   *)
(* cuts the JSON text at the minus sign of a negative number.              *)
(***************************************************************************)
C29_OneRowPerCombination ==
  (pc \in {"average.idle", "thrown"}) =>
     /\ out # SyntaxError
     /\ RowsMatchCombinations(out.value)

\* C29 for results whose parameters are all positive
C29_PositiveParamsGrouped ==
  (/\ pc = "average.idle"
   /\ \A k \in 1..Len(loc.results) :
        \A j \in 1..Len(loc.results[k].datasetParams) :
           loc.results[k].datasetParams[j][2] > 0) =>
     /\ out # SyntaxError
     /\ RowsMatchCombinations(out.value)

\* the render raised after a run with points: -5
C29_NegativeParamThrows ==
  /\ pc = "thrown"
  /\ out = SyntaxError
  /\ Len(loc.results) >= 1
  /\ loc.results[1].datasetParams = << <<"points", -5>>, <<"series", 3>> >>

====
